---- MODULE Spec2Model ----
(***************************************************************************)
(* PicoBot mission controller (src/PicoBot/picobot_main.py).               *)
(*                                                                         *)
(* Three executors share the module globals: the line-follow timer         *)
(* callback, the mission timer callback (both every 50 ms) and the web     *)
(* server loop.  A timer callback runs to completion once it has started;  *)
(* it can start between any two statements of the server loop.  The        *)
(* server loop is therefore modelled statement by statement (hpc is its    *)
(* program counter), the callbacks as single actions.  A statement of the  *)
(* server loop that changes nothing (an `if "key=" in request_str` whose   *)
(* key is absent, the building of the response text) is merged into the    *)
(* step before it.                                                         *)
(*                                                                         *)
(* Numbers: ratios (floats in the source) are kept in hundredths;          *)
(* search_intensity is the exact fraction <<n, d>>.  Request text is a     *)
(* tuple of one-character strings.                                         *)
(*                                                                         *)
(* Time: milliseconds, measured from the present instant.  ticks_ms() is   *)
(* `now`, the origin; a stored stamp is the (negative) offset of the       *)
(* instant it was taken, and the passing of one timer period lowers every  *)
(* stored stamp by Period.  The code only ever reads differences           *)
(* ticks_diff(ticks_ms(), stamp).  A stamp older than MaxAge is kept at    *)
(* -MaxAge: no dwell or grace value the requests can set exceeds MaxAge,   *)
(* so every comparison the code makes is unchanged; so is a stamp that no  *)
(* statement can read before it is overwritten (see Aged).  A callback     *)
(* reads one value of ticks_ms() throughout.                               *)
(***************************************************************************)
EXTENDS Integers, Sequences, FiniteSets, TLC

\* ------------------------------------------------------------------------
\* Bounds of the model
\* ------------------------------------------------------------------------
\* age (ms) beyond which a stored time stamp is no longer told apart
MaxAge == 1000
\* number of times search_intensity may be multiplied by 1.5 before it is reset
MaxEscalations == 16

\* ------------------------------------------------------------------------
\* Program constants
\* ------------------------------------------------------------------------
\* period of both timers (ms)
Period == 50

\* ticks_ms(): the present instant is the origin of the clock
now == 0

Left  == <<"l", "e", "f", "t">>
Right == <<"r", "i", "g", "h", "t">>

\* the module globals that hold tunables, with their initial values
DefaultTunables ==
    [ base_speed          |-> 30,
      slight_ratio        |-> 90,
      mild_ratio          |-> 75,
      hard_ratio          |-> 60,
      grace_period        |-> 800,
      search_ratio        |-> 40,
      base_center         |-> 90,
      base_offset_deg     |-> 45,
      base_first_side     |-> Left,
      arm_transport_angle |-> 100,
      arm_down_angle      |-> 70,
      grip_open_angle     |-> 120,
      grip_close_angle    |-> 60,
      servo_settle_ms     |-> 600,
      reverse_speed       |-> 35,
      reverse_time_ms     |-> 600,
      rotate_dir          |-> Left,
      rotate_speed        |-> 40,
      rotate_time_ms      |-> 1000 ]

\* ------------------------------------------------------------------------
\* Arithmetic helpers
\* ------------------------------------------------------------------------
\* Python int(x) of the quotient a / b (b > 0): truncation toward zero
IntDiv(a, b) == IF a >= 0 THEN a \div b ELSE -((-a) \div b)

Max(a, b) == IF a >= b THEN a ELSE b
Min(a, b) == IF a <= b THEN a ELSE b

\* ticks_diff(a, b), away from the wrap of the millisecond counter
ticks_diff(a, b) == a - b

\* ------------------------------------------------------------------------
\* Actuator commands, as the ports receive them
\* ------------------------------------------------------------------------
TurnMotor(m, d, s) ==
    [op |-> "TurnMotor", motor |-> m, dir |-> d, ch |-> -1, val |-> s]
StopAllMotors ==
    [op |-> "StopAllMotors", motor |-> "", dir |-> "", ch |-> -1, val |-> 0]
control_servo(c, a) ==
    [op |-> "control_servo", motor |-> "", dir |-> "", ch |-> c, val |-> a]

\* four wheels: left pair (direction, duty), right pair (direction, duty)
Wheels(ld, ls, rd, rs) ==
    << TurnMotor("LeftFront", ld, ls), TurnMotor("LeftBack", ld, ls),
       TurnMotor("RightFront", rd, rs), TurnMotor("RightBack", rd, rs) >>

\* ------------------------------------------------------------------------
\* base_angle_for
\* ------------------------------------------------------------------------
base_angle_for(side, t) ==
    IF side = Left
    THEN Max(0, Min(180, t.base_center - t.base_offset_deg))
    ELSE Max(0, Min(180, t.base_center + t.base_offset_deg))

\* ------------------------------------------------------------------------
\* decide_action: sensor snapshot (right to left, 0/1) -> action name
\* ------------------------------------------------------------------------
\* the weights listed left to right
positions_LeftToRight == <<-2, -1, 0, 1, 2>>

positions == <<2, 1, 0, -1, -2>>

RECURSIVE SumOver(_, _)
\* sum of f[i] for i in 1..n
SumOver(f, n) == IF n = 0 THEN 0 ELSE f[n] + SumOver(f, n - 1)

\* decide_action without "weighted_sum = weighted_sum / active_sensors"
decide_action_NoMean(sensor_values) ==
    LET weighted_sum   == SumOver([i \in 1..5 |-> IF sensor_values[i] = 1 THEN positions[i] ELSE 0], 5)
        Above(th) == 10 * weighted_sum > th
        Below(th) == 10 * weighted_sum < th
    IN  IF \A i \in 1..5 : sensor_values[i] = 1 THEN "ON JUNCTION"
        ELSE IF \A i \in 1..5 : sensor_values[i] = 0 THEN "LINE LOST"
        ELSE IF Above(12)  THEN "HARD RIGHT"
        ELSE IF Above(6)   THEN "MILD RIGHT"
        ELSE IF Above(2)   THEN "SLIGHT RIGHT"
        ELSE IF Below(-12) THEN "HARD LEFT"
        ELSE IF Below(-6)  THEN "MILD LEFT"
        ELSE IF Below(-2)  THEN "SLIGHT LEFT"
        ELSE IF weighted_sum = 0 /\ \E i \in 1..5 : sensor_values[i] = 1 THEN "FORWARD"
        ELSE "SEARCHING"

\* decide_action with the SLIGHT thresholds at 0.3 and -0.3
decide_action_Slight03(sensor_values) ==
    LET active_sensors == SumOver([i \in 1..5 |-> IF sensor_values[i] = 1 THEN 1 ELSE 0], 5)
        weighted_sum   == SumOver([i \in 1..5 |-> IF sensor_values[i] = 1 THEN positions[i] ELSE 0], 5)
        Above(th) == 10 * weighted_sum > th * active_sensors
        Below(th) == 10 * weighted_sum < th * active_sensors
    IN  IF \A i \in 1..5 : sensor_values[i] = 1 THEN "ON JUNCTION"
        ELSE IF \A i \in 1..5 : sensor_values[i] = 0 THEN "LINE LOST"
        ELSE IF Above(12)  THEN "HARD RIGHT"
        ELSE IF Above(6)   THEN "MILD RIGHT"
        ELSE IF Above(3)   THEN "SLIGHT RIGHT"
        ELSE IF Below(-12) THEN "HARD LEFT"
        ELSE IF Below(-6)  THEN "MILD LEFT"
        ELSE IF Below(-3)  THEN "SLIGHT LEFT"
        ELSE IF weighted_sum = 0 /\ \E i \in 1..5 : sensor_values[i] = 1 THEN "FORWARD"
        ELSE "SEARCHING"

\* weighted_sum / active_sensors compared with a threshold given in tenths:
\* the quotient k / c (c > 0) is above th / 10 iff 10 * k > th * c
decide_action(sensor_values) ==
    LET active_sensors == SumOver([i \in 1..5 |-> IF sensor_values[i] = 1 THEN 1 ELSE 0], 5)
        weighted_sum   == SumOver([i \in 1..5 |-> IF sensor_values[i] = 1 THEN positions[i] ELSE 0], 5)
        Above(th) == 10 * weighted_sum > th * active_sensors
        Below(th) == 10 * weighted_sum < th * active_sensors
    IN  IF \A i \in 1..5 : sensor_values[i] = 1 THEN "ON JUNCTION"
        ELSE IF \A i \in 1..5 : sensor_values[i] = 0 THEN "LINE LOST"
        ELSE IF Above(12)  THEN "HARD RIGHT"
        ELSE IF Above(6)   THEN "MILD RIGHT"
        ELSE IF Above(2)   THEN "SLIGHT RIGHT"
        ELSE IF Below(-12) THEN "HARD LEFT"
        ELSE IF Below(-6)  THEN "MILD LEFT"
        ELSE IF Below(-2)  THEN "SLIGHT LEFT"
        ELSE IF weighted_sum = 0 /\ \E i \in 1..5 : sensor_values[i] = 1 THEN "FORWARD"
        ELSE "SEARCHING"

\* ------------------------------------------------------------------------
\* set_motor_action
\* ------------------------------------------------------------------------
\* search_intensity is the fraction n / d, kept as <<n, d>>
One == <<1, 1>>
\* Times15 with the intensity doubled
Times15_Double(si) == <<2 * si[1], si[2]>>

Times15(si) == <<3 * si[1], 2 * si[2]>>

RECURSIVE Pow2(_)
Pow2(n) == IF n = 0 THEN 1 ELSE 2 * Pow2(n - 1)
\* the intensity has been multiplied fewer than MaxEscalations times
MayEscalate(si) == si[2] < Pow2(MaxEscalations)

\* Scaled with the product rounded up instead of truncated
Scaled_RoundUp(speed, ratio) == (speed * ratio + 99) \div 100

\* int(base_speed * ratio), ratio in hundredths
Scaled(speed, ratio) == IntDiv(speed * ratio, 100)

\* int(base_speed * search_ratio * search_intensity); the product q * n / (100 * d)
\* is taken in two parts so that no intermediate value leaves TLC's integers
TurnSpeed(t, si) ==
    LET q  == t.base_speed * t.search_ratio
        aq == IF q >= 0 THEN q ELSE -q
        a  == si[1] \div si[2]
        r  == si[1] % si[2]
        m  == (aq * a + (aq * r) \div si[2]) \div 100
    IN  IF q >= 0 THEN m ELSE -m

\* "RIGHT" in last_direction, "LEFT" in last_direction
HasRight(a) == a \in {"SLIGHT RIGHT", "MILD RIGHT", "HARD RIGHT"}
HasLeft(a)  == a \in {"SLIGHT LEFT", "MILD LEFT", "HARD LEFT"}

\* the recovery pivot of the LINE LOST and SEARCHING branches; Rec is the
\* result of the recursive call set_motor_action(last_direction)
Pivot(s, t, Rec) ==
    IF HasRight(s.last_direction)
    THEN [s EXCEPT !.cmds = @ \o Wheels("forward", TurnSpeed(t, s.search_intensity),
                                        "backward", TurnSpeed(t, s.search_intensity))]
    ELSE IF HasLeft(s.last_direction)
    THEN [s EXCEPT !.cmds = @ \o Wheels("backward", TurnSpeed(t, s.search_intensity),
                                        "forward", TurnSpeed(t, s.search_intensity))]
    ELSE Rec

RECURSIVE set_motor_action(_, _, _, _)
\* s = [last_direction, search_intensity, cmds]: the two globals the function
\* writes and the commands issued so far; t: the tunables; el: the value of
\* ticks_diff(ticks_ms(), line_lost_time) the call reads.
\* depth-limited only by the code's own recursion (see LINE LOST / SEARCHING)
set_motor_action(action, s, t, el) ==
    LET drive(ls, rs) ==
            [s EXCEPT !.cmds = @ \o Wheels("forward", ls, "forward", rs),
                      !.search_intensity = One]
        stop(x) == [x EXCEPT !.cmds = @ \o <<StopAllMotors>>,
                             !.search_intensity = One]
        body ==
            CASE action = "FORWARD"      -> drive(t.base_speed, t.base_speed)
              [] action = "SLIGHT RIGHT" -> drive(t.base_speed, Scaled(t.base_speed, t.slight_ratio))
              [] action = "MILD RIGHT"   -> drive(t.base_speed, Scaled(t.base_speed, t.mild_ratio))
              [] action = "HARD RIGHT"   -> drive(t.base_speed, Scaled(t.base_speed, t.hard_ratio))
              [] action = "SLIGHT LEFT"  -> drive(Scaled(t.base_speed, t.slight_ratio), t.base_speed)
              [] action = "MILD LEFT"    -> drive(Scaled(t.base_speed, t.mild_ratio), t.base_speed)
              [] action = "HARD LEFT"    -> drive(Scaled(t.base_speed, t.hard_ratio), t.base_speed)
              [] action = "ON JUNCTION"  -> stop(s)
              [] action = "LINE LOST"    ->
                    LET s1 == [s EXCEPT !.search_intensity = Times15(@)]
                    IN  IF el < t.grace_period
                        THEN Pivot(s1, t, set_motor_action(s1.last_direction, s1, t, el))
                        ELSE stop(s1)
              [] action = "SEARCHING"    ->
                    IF el < t.grace_period
                    THEN Pivot(s, t, set_motor_action(s.last_direction, s, t, el))
                    ELSE stop(s)
              [] OTHER -> s
    IN  IF action \notin {"LINE LOST", "SEARCHING"}
        THEN [body EXCEPT !.last_direction = action]
        ELSE body


\* the nesting the count of recursive calls is followed to
MaxNesting == 3

RECURSIVE Nesting(_, _, _, _)
\* the number of calls set_motor_action(last_direction) nested in a call
\* set_motor_action(action) that has n calls around it, counted up to
\* MaxNesting: the LINE LOST and SEARCHING branches recurse when the grace
\* period is running and last_direction holds neither "RIGHT" nor "LEFT"
Nesting(action, ld, inGrace, n) ==
    IF action \in {"LINE LOST", "SEARCHING"} /\ inGrace /\ ~HasRight(ld) /\ ~HasLeft(ld)
    THEN IF n = MaxNesting THEN n ELSE Nesting(ld, ld, inGrace, n + 1)
    ELSE n

\* ------------------------------------------------------------------------
\* Text: str.split, the `in` test, int() and float()
\* ------------------------------------------------------------------------
\* sub occurs in s at position i
OccursAt(sub, s, i) ==
    /\ i + Len(sub) - 1 <= Len(s)
    /\ SubSeq(s, i, i + Len(sub) - 1) = sub

\* position of the first occurrence of sub in s at or after position from; 0 if none
FindFrom(sub, s, from) ==
    LET hits == {i \in from..Len(s) : OccursAt(sub, s, i)}
    IN  IF hits = {} THEN 0 ELSE CHOOSE i \in hits : \A j \in hits : i <= j

\* sub in s
In(sub, s) == FindFrom(sub, s, 1) # 0

\* s.split(sub)[1], for s that contains sub: the text between the first
\* occurrence of sub and the next one (or the end of s)
Split1(s, sub) ==
    LET b == FindFrom(sub, s, 1) + Len(sub)
        e == FindFrom(sub, s, b)
    IN  IF e = 0 THEN SubSeq(s, b, Len(s)) ELSE SubSeq(s, b, e - 1)

\* s.split(sub)[0]
Split0(s, sub) ==
    LET e == FindFrom(sub, s, 1)
    IN  IF e = 0 THEN s ELSE SubSeq(s, 1, e - 1)

\* request_str.split(key)[1].split("&")[0]
ValueOf(request_str, key) == Split0(Split1(request_str, key), <<"&">>)

DigitChars == <<"0", "1", "2", "3", "4", "5", "6", "7", "8", "9">>
IsDigit(c) == \E d \in 1..10 : DigitChars[d] = c
DigitVal(c) == (CHOOSE d \in 1..10 : DigitChars[d] = c) - 1

RECURSIVE DigitsVal(_)
\* the number written by a tuple of digits
DigitsVal(ds) ==
    IF ds = <<>> THEN 0
    ELSE 10 * DigitsVal(SubSeq(ds, 1, Len(ds) - 1)) + DigitVal(ds[Len(ds)])

AllDigits(ds) == \A i \in 1..Len(ds) : IsDigit(ds[i])

RECURSIVE Strip(_)
\* str.strip() for blanks
Strip(x) ==
    IF x # <<>> /\ x[1] = " " THEN Strip(Tail(x))
    ELSE IF x # <<>> /\ x[Len(x)] = " " THEN Strip(SubSeq(x, 1, Len(x) - 1))
    ELSE x

\* sign and unsigned part of a numeral
SignOf(x) == IF x # <<>> /\ x[1] = "-" THEN -1 ELSE 1
Unsigned(x) == IF x # <<>> /\ x[1] \in {"-", "+"} THEN Tail(x) ELSE x

\* int(text): [ok |-> FALSE] stands for ValueError
ParseInt(text) ==
    LET u == Unsigned(Strip(text))
    IN  IF u # <<>> /\ AllDigits(u)
        THEN [ok |-> TRUE, val |-> SignOf(Strip(text)) * DigitsVal(u)]
        ELSE [ok |-> FALSE, val |-> 0]

\* float(text), in hundredths (decimal numerals with at most two fraction
\* digits are exact; further digits are dropped)
ParseFloat(text) ==
    LET u   == Unsigned(Strip(text))
        dot == FindFrom(<<".">>, u, 1)
        ip  == IF dot = 0 THEN u ELSE SubSeq(u, 1, dot - 1)
        fp  == IF dot = 0 THEN <<>> ELSE SubSeq(u, dot + 1, Len(u))
        f2  == SubSeq(fp \o <<"0", "0">>, 1, 2)
    IN  IF (ip # <<>> \/ fp # <<>>) /\ AllDigits(ip) /\ AllDigits(fp)
        THEN [ok |-> TRUE,
              val |-> SignOf(Strip(text)) * (100 * DigitsVal(ip) + DigitsVal(f2))]
        ELSE [ok |-> FALSE, val |-> 0]

\* ------------------------------------------------------------------------
\* The query keys of the server loop, in the order of its `if` statements:
\* the text searched for ("key="), the conversion, the global assigned
\* ------------------------------------------------------------------------
Keys == <<
    [key |-> <<"s", "p", "e", "e", "d", "=">>, kind |-> "int", field |-> "base_speed"],
    [key |-> <<"s", "l", "i", "g", "h", "t", "=">>, kind |-> "float", field |-> "slight_ratio"],
    [key |-> <<"m", "i", "l", "d", "=">>, kind |-> "float", field |-> "mild_ratio"],
    [key |-> <<"h", "a", "r", "d", "=">>, kind |-> "float", field |-> "hard_ratio"],
    [key |-> <<"g", "r", "a", "c", "e", "=">>, kind |-> "int", field |-> "grace_period"],
    [key |-> <<"s", "e", "a", "r", "c", "h", "=">>, kind |-> "float", field |-> "search_ratio"],
    [key |-> <<"b", "a", "s", "e", "_", "c", "e", "n", "t", "e", "r", "=">>, kind |-> "int", field |-> "base_center"],
    [key |-> <<"b", "a", "s", "e", "_", "o", "f", "f", "s", "e", "t", "=">>, kind |-> "int", field |-> "base_offset_deg"],
    [key |-> <<"f", "i", "r", "s", "t", "_", "s", "i", "d", "e", "=">>, kind |-> "side", field |-> "base_first_side"],
    [key |-> <<"a", "r", "m", "_", "t", "r", "a", "n", "s", "p", "o", "r", "t", "=">>, kind |-> "int", field |-> "arm_transport_angle"],
    [key |-> <<"a", "r", "m", "_", "d", "o", "w", "n", "=">>, kind |-> "int", field |-> "arm_down_angle"],
    [key |-> <<"g", "r", "i", "p", "_", "o", "p", "e", "n", "=">>, kind |-> "int", field |-> "grip_open_angle"],
    [key |-> <<"g", "r", "i", "p", "_", "c", "l", "o", "s", "e", "=">>, kind |-> "int", field |-> "grip_close_angle"],
    [key |-> <<"s", "e", "r", "v", "o", "_", "s", "e", "t", "t", "l", "e", "=">>, kind |-> "int", field |-> "servo_settle_ms"],
    [key |-> <<"r", "e", "v", "e", "r", "s", "e", "_", "s", "p", "e", "e", "d", "=">>, kind |-> "int", field |-> "reverse_speed"],
    [key |-> <<"r", "e", "v", "e", "r", "s", "e", "_", "t", "i", "m", "e", "=">>, kind |-> "int", field |-> "reverse_time_ms"],
    [key |-> <<"r", "o", "t", "a", "t", "e", "_", "d", "i", "r", "=">>, kind |-> "side", field |-> "rotate_dir"],
    [key |-> <<"r", "o", "t", "a", "t", "e", "_", "s", "p", "e", "e", "d", "=">>, kind |-> "int", field |-> "rotate_speed"],
    [key |-> <<"r", "o", "t", "a", "t", "e", "_", "t", "i", "m", "e", "=">>, kind |-> "int", field |-> "rotate_time_ms"] >>

\* ------------------------------------------------------------------------
\* Requests the operator sends (the request line; headers carry no key)
\* ------------------------------------------------------------------------
Requests == <<
    \* 1: GET /?action=start HTTP/1.1
    <<"G", "E", "T", " ", "/", "?", "a", "c", "t", "i", "o", "n", "=", "s", "t", "a", "r", "t", " ", "H", "T", "T", "P", "/", "1", ".", "1">>,
    \* 2: GET /?action=start&speed=30&rotate_time=1000 HTTP/1.1
    <<"G", "E", "T", " ", "/", "?", "a", "c", "t", "i", "o", "n", "=", "s", "t", "a", "r", "t", "&", "s", "p", "e", "e", "d", "=", "3", "0", "&", "r", "o", "t", "a", "t", "e", "_", "t", "i", "m", "e", "=", "1", "0", "0", "0", " ", "H", "T", "T", "P", "/", "1", ".", "1">>,
    \* 3: GET /?action=stop HTTP/1.1
    <<"G", "E", "T", " ", "/", "?", "a", "c", "t", "i", "o", "n", "=", "s", "t", "o", "p", " ", "H", "T", "T", "P", "/", "1", ".", "1">>,
    \* 4: GET /?action=update&grace=150& HTTP/1.1
    <<"G", "E", "T", " ", "/", "?", "a", "c", "t", "i", "o", "n", "=", "u", "p", "d", "a", "t", "e", "&", "g", "r", "a", "c", "e", "=", "1", "5", "0", "&", " ", "H", "T", "T", "P", "/", "1", ".", "1">>,
    \* 5: GET /sensors HTTP/1.1
    <<"G", "E", "T", " ", "/", "s", "e", "n", "s", "o", "r", "s", " ", "H", "T", "T", "P", "/", "1", ".", "1">>,
    \* 6: GET /?action=start&rotate_dir=left& HTTP/1.1
    <<"G", "E", "T", " ", "/", "?", "a", "c", "t", "i", "o", "n", "=", "s", "t", "a", "r", "t", "&", "r", "o", "t", "a", "t", "e", "_", "d", "i", "r", "=", "l", "e", "f", "t", "&", " ", "H", "T", "T", "P", "/", "1", ".", "1">>,
    \* 7: GET /?action=update&speed=abc&grace=150& HTTP/1.1
    <<"G", "E", "T", " ", "/", "?", "a", "c", "t", "i", "o", "n", "=", "u", "p", "d", "a", "t", "e", "&", "s", "p", "e", "e", "d", "=", "a", "b", "c", "&", "g", "r", "a", "c", "e", "=", "1", "5", "0", "&", " ", "H", "T", "T", "P", "/", "1", ".", "1">>,
    \* 8: GET /?action=start&speed=25&grace=x& HTTP/1.1
    <<"G", "E", "T", " ", "/", "?", "a", "c", "t", "i", "o", "n", "=", "s", "t", "a", "r", "t", "&", "s", "p", "e", "e", "d", "=", "2", "5", "&", "g", "r", "a", "c", "e", "=", "x", "&", " ", "H", "T", "T", "P", "/", "1", ".", "1">>,
    \* 9: GET /?action=update&reverse_speed=35& HTTP/1.1
    <<"G", "E", "T", " ", "/", "?", "a", "c", "t", "i", "o", "n", "=", "u", "p", "d", "a", "t", "e", "&", "r", "e", "v", "e", "r", "s", "e", "_", "s", "p", "e", "e", "d", "=", "3", "5", "&", " ", "H", "T", "T", "P", "/", "1", ".", "1">>,
    \* 10: GET /?action=update&reverse_speed=35&speed=20& HTTP/1.1
    <<"G", "E", "T", " ", "/", "?", "a", "c", "t", "i", "o", "n", "=", "u", "p", "d", "a", "t", "e", "&", "r", "e", "v", "e", "r", "s", "e", "_", "s", "p", "e", "e", "d", "=", "3", "5", "&", "s", "p", "e", "e", "d", "=", "2", "0", "&", " ", "H", "T", "T", "P", "/", "1", ".", "1">>,
    \* 11: GET /?action=update&first_side=right& HTTP/1.1
    <<"G", "E", "T", " ", "/", "?", "a", "c", "t", "i", "o", "n", "=", "u", "p", "d", "a", "t", "e", "&", "f", "i", "r", "s", "t", "_", "s", "i", "d", "e", "=", "r", "i", "g", "h", "t", "&", " ", "H", "T", "T", "P", "/", "1", ".", "1">>,
    \* 12: GET /?action=start&first_side=up& HTTP/1.1
    <<"G", "E", "T", " ", "/", "?", "a", "c", "t", "i", "o", "n", "=", "s", "t", "a", "r", "t", "&", "f", "i", "r", "s", "t", "_", "s", "i", "d", "e", "=", "u", "p", "&", " ", "H", "T", "T", "P", "/", "1", ".", "1">>,
    \* 13: GET /?action=update&rotate_dir=up& HTTP/1.1
    <<"G", "E", "T", " ", "/", "?", "a", "c", "t", "i", "o", "n", "=", "u", "p", "d", "a", "t", "e", "&", "r", "o", "t", "a", "t", "e", "_", "d", "i", "r", "=", "u", "p", "&", " ", "H", "T", "T", "P", "/", "1", ".", "1">>,
    \* 14: GET /?action=start&base_center=200&base_offset=45& HTTP/1.1
    <<"G", "E", "T", " ", "/", "?", "a", "c", "t", "i", "o", "n", "=", "s", "t", "a", "r", "t", "&", "b", "a", "s", "e", "_", "c", "e", "n", "t", "e", "r", "=", "2", "0", "0", "&", "b", "a", "s", "e", "_", "o", "f", "f", "s", "e", "t", "=", "4", "5", "&", " ", "H", "T", "T", "P", "/", "1", ".", "1">> >>

Prefix_sensors == <<"G", "E", "T", " ", "/", "s", "e", "n", "s", "o", "r", "s">>
Prefix_start   == <<"G", "E", "T", " ", "/", "?", "a", "c", "t", "i", "o", "n", "=", "s", "t", "a", "r", "t">>
Prefix_stop    == <<"G", "E", "T", " ", "/", "?", "a", "c", "t", "i", "o", "n", "=", "s", "t", "o", "p">>
Prefix_update  == <<"G", "E", "T", " ", "/", "?", "a", "c", "t", "i", "o", "n", "=", "u", "p", "d", "a", "t", "e">>

\* the branch of the server loop's if / elif chain a request takes
Route(request_str) ==
    IF In(Prefix_sensors, request_str) THEN "sensors"
    ELSE IF In(Prefix_start, request_str) THEN "start"
    ELSE IF In(Prefix_stop, request_str) THEN "stop"
    ELSE IF In(Prefix_update, request_str) THEN "update"
    ELSE "page"

\* index of the first key statement at or after i whose key occurs in the
\* request; Len(Keys) + 1 if none
NextKey(request_str, i) ==
    LET present == {j \in i..Len(Keys) : In(Keys[j].key, request_str)}
    IN  IF present = {} THEN Len(Keys) + 1
        ELSE CHOOSE j \in present : \A k \in present : j <= k



\* what the server loop's text operations give for each request, request by
\* request: its branch, the key statements that fire, the value text
ReqRoute == [r \in 1..Len(Requests) |-> Route(Requests[r])]
ReqNextKey ==
    [r \in 1..Len(Requests) |-> [i \in 1..(Len(Keys) + 1) |-> NextKey(Requests[r], i)]]
ReqText ==
    [r \in 1..Len(Requests) |->
        [j \in 1..Len(Keys) |->
            IF In(Keys[j].key, Requests[r]) THEN ValueOf(Requests[r], Keys[j].key)
            ELSE <<>>]]

\* ------------------------------------------------------------------------
\* State
\* ------------------------------------------------------------------------
VARIABLES
    \* line follower globals
    robot_running, line_lost, line_lost_time, last_direction, search_intensity,
    \* mission state machine globals
    mission_mode, mission_stage, mission_stage_started, mission_status_text,
    \* the tunable globals, one record field per global
    tun,
    \* the timer callbacks that have yet to run in the current period
    due,
    \* server loop: program counter, index of the request being served
    \* (0: none), index of the key statement to execute next
    hpc, req, hkey,
    \* observation: who issued the commands of the last step and what they
    \* were; the commands the server loop has issued for the request it is
    \* serving; whether a stop request has returned and no start request has
    \* been received since
    by, cmds, hcmds, stopReturned,
    \* observation of the mission sequencer: the number of mission callbacks
    \* that have found the stage unchanged since mission_stage_started was
    \* stamped; whether the latest sequence began with the server loop idle
    \* and no start, stop or update request has been received since; for
    \* such a sequence, the commands issued while it was under way
    polls, passClean, passLog,
    \* the classifier on its own: the latest calls of decide_action, each
    \* with the snapshot it was given and the action it returned
    calls

follower == <<robot_running, line_lost, line_lost_time, last_direction, search_intensity>>
mission  == <<mission_mode, mission_stage, mission_stage_started, mission_status_text>>
server   == <<hpc, req, hkey>>
pass     == <<passClean, passLog>>
vars == <<follower, mission, tun, due, server, by, cmds, hcmds, stopReturned,
          polls, pass, calls>>

\* sensor snapshots the line-follow callback may read (right to left)
Snapshots ==
    { <<1, 1, 1, 1, 1>>,     \* ON JUNCTION
      <<0, 0, 0, 0, 0>>,     \* LINE LOST
      <<0, 0, 1, 0, 0>>,     \* FORWARD
      <<1, 0, 0, 0, 0>>,     \* HARD RIGHT
      <<0, 0, 1, 1, 0>> }    \* SLIGHT LEFT

\* the snapshots of a run on which the line is never lost
OnLineSnapshots == {v \in Snapshots : decide_action(v) # "LINE LOST" /\ ~HasLeft(decide_action(v))}

\* requests the server loop may receive, as indices of Requests
ReqMenu == 1..6
\* the requests of the runs in which the server loop serves a request
\* between two timer callbacks: start, stop, update&grace=150&
FollowMenu == {1, 3, 4}

\* the globals are created as 0 while the millisecond counter already shows
\* the time since power-up: both stamps start out older than any dwell
Init ==
    /\ robot_running = FALSE
    /\ line_lost = FALSE
    /\ line_lost_time = -MaxAge
    /\ last_direction = "FORWARD"
    /\ search_intensity = One
    /\ mission_mode = "IDLE"
    /\ mission_stage = 0
    /\ mission_stage_started = -MaxAge
    /\ mission_status_text = "Stopped"
    /\ tun = DefaultTunables
    /\ due = {}
    /\ hpc = "accept"
    /\ req = 0
    /\ hkey = 0
    /\ by = "-"
    /\ cmds = <<>>
    /\ hcmds = <<>>
    /\ stopReturned = FALSE
    /\ polls = 0
    /\ passClean = FALSE
    /\ passLog = <<>>
    /\ calls = <<>>

\* what a step records about the commands it issued (the log of the
\* classifier's own calls is kept by its own specification only)
Issue(who, cs) ==
    /\ by' = IF cs = <<>> THEN "-" ELSE who
    /\ cmds' = cs
    /\ UNCHANGED calls

\* what a step records about the latest sequence: it issued cs; keep is
\* false if the step brings a start, stop or update request
Pass(cs, keep) ==
    /\ passClean' = (passClean /\ keep)
    /\ passLog' = IF passClean /\ keep
                  THEN IF mission_mode = "ARM_SEQ" THEN passLog \o cs ELSE passLog
                  ELSE <<>>

\* ------------------------------------------------------------------------
\* The clock: both timers fire once in every period
\* ------------------------------------------------------------------------
\* a stamp, one period later.  live: some statement can still read the
\* stamp before it is overwritten.  line_lost_time is read only under
\* line_lost (line_follow_callback, and set_motor_action when called from
\* there with "LINE LOST"), and line_lost is set only together with the
\* stamp; mission_stage_started is read only in mode ARM_SEQ, which is
\* entered only through mission_mode_to_arm_sequence, which stamps it.
Aged(stamp, live) == IF live THEN Max(stamp - Period, -MaxAge) ELSE -MaxAge

AdvanceClock ==
    /\ due = {}
    /\ due' = {"line", "mission"}
    /\ line_lost_time' = Aged(line_lost_time, line_lost)
    /\ mission_stage_started' = Aged(mission_stage_started, mission_mode = "ARM_SEQ")
    /\ Issue("-", <<>>)
    /\ UNCHANGED <<robot_running, line_lost, last_direction, search_intensity,
                   mission_mode, mission_stage, mission_status_text,
                   tun, server, hcmds, stopReturned, polls, pass>>

\* ------------------------------------------------------------------------
\* line_follow_callback
\* ------------------------------------------------------------------------
\* mission_mode_to_arm_sequence without its "mission_stage = 0"
mission_mode_to_arm_sequence_KeepStage ==
    /\ mission_mode' = "ARM_SEQ"
    /\ mission_stage_started' = now
    /\ mission_status_text' = "Manipulating object"
    /\ UNCHANGED mission_stage

mission_mode_to_arm_sequence ==
    /\ mission_mode' = "ARM_SEQ"
    /\ mission_stage' = 0
    /\ mission_stage_started' = now
    /\ mission_status_text' = "Manipulating object"

\* the ON JUNCTION branch with "else" where the code has
\* "elif mission_mode == "RETURNING""
OnJunction_ElseDone ==
    /\ Issue("line", <<StopAllMotors>>)
    /\ robot_running' = FALSE
    /\ IF mission_mode = "OUTBOUND"
       THEN /\ mission_mode_to_arm_sequence
            /\ polls' = 0
            /\ passClean' = (hpc = "accept")
            /\ passLog' = <<>>
       ELSE /\ mission_mode' = "DONE"
            /\ mission_status_text' = "Mission accomplished (back at start)"
            /\ Pass(<<StopAllMotors>>, TRUE)
            /\ UNCHANGED <<mission_stage, mission_stage_started, polls>>
    /\ UNCHANGED <<line_lost, line_lost_time, last_direction, search_intensity>>

\* the ON JUNCTION branch handing the action to set_motor_action, which
\* stops the motors, resets search_intensity and records the action in
\* last_direction
OnJunction_ViaController ==
    /\ Issue("line", <<StopAllMotors>>)
    /\ robot_running' = FALSE
    /\ search_intensity' = One
    /\ last_direction' = "ON JUNCTION"
    /\ IF mission_mode = "OUTBOUND"
       THEN /\ mission_mode_to_arm_sequence
            /\ polls' = 0
            /\ passClean' = (hpc = "accept")
            /\ passLog' = <<>>
       ELSE IF mission_mode = "RETURNING"
       THEN /\ mission_mode' = "DONE"
            /\ mission_status_text' = "Mission accomplished (back at start)"
            /\ Pass(<<StopAllMotors>>, TRUE)
            /\ UNCHANGED <<mission_stage, mission_stage_started, polls>>
       ELSE /\ Pass(<<StopAllMotors>>, TRUE)
            /\ UNCHANGED <<mission, polls>>
    /\ UNCHANGED <<line_lost, line_lost_time>>

\* the ON JUNCTION branch of the callback
OnJunction ==
    /\ Issue("line", <<StopAllMotors>>)
    /\ robot_running' = FALSE
    /\ IF mission_mode = "OUTBOUND"
       THEN /\ mission_mode_to_arm_sequence
            /\ polls' = 0
            /\ passClean' = (hpc = "accept")
            /\ passLog' = <<>>
       ELSE IF mission_mode = "RETURNING"
       THEN /\ mission_mode' = "DONE"
            /\ mission_status_text' = "Mission accomplished (back at start)"
            /\ Pass(<<StopAllMotors>>, TRUE)
            /\ UNCHANGED <<mission_stage, mission_stage_started, polls>>
       ELSE /\ Pass(<<StopAllMotors>>, TRUE)
            /\ UNCHANGED <<mission, polls>>
    /\ UNCHANGED <<line_lost, line_lost_time, last_direction, search_intensity>>

\* the callback with the expired grace period handed to set_motor_action
\* as well
LineFollowTick_ExpiryDelegates(vals) ==
    LET act == decide_action(vals)
        s0  == [last_direction |-> last_direction,
                search_intensity |-> search_intensity, cmds |-> <<>>]
        sm  == set_motor_action(act, s0, tun, ticks_diff(now, line_lost_time))
    IN
    /\ "line" \in due
    /\ robot_running /\ act = "LINE LOST" /\ line_lost => MayEscalate(search_intensity)
    /\ due' = due \ {"line"}
    /\ IF ~robot_running
       THEN /\ Issue("line", <<>>)
            /\ UNCHANGED <<follower, mission, polls, pass>>
       ELSE IF act = "ON JUNCTION"
       THEN OnJunction
       ELSE IF act = "LINE LOST"
       THEN /\ IF ~line_lost
               THEN /\ line_lost' = TRUE
                    /\ line_lost_time' = now
                    /\ Issue("line", <<>>)
                    /\ UNCHANGED <<last_direction, search_intensity, pass>>
               ELSE /\ Issue("line", sm.cmds)
                    /\ Pass(sm.cmds, TRUE)
                    /\ last_direction' = sm.last_direction
                    /\ search_intensity' = sm.search_intensity
                    /\ UNCHANGED <<line_lost, line_lost_time>>
            /\ UNCHANGED <<robot_running, mission, polls>>
       ELSE /\ line_lost' = FALSE
            /\ Issue("line", sm.cmds)
            /\ Pass(sm.cmds, TRUE)
            /\ last_direction' = sm.last_direction
            /\ search_intensity' = sm.search_intensity
            /\ UNCHANGED <<robot_running, line_lost_time, mission, polls>>
    /\ UNCHANGED <<tun, server, hcmds, stopReturned>>

\* the callback without its first statement, `if not robot_running: return`
LineFollowTick_NoGuard(vals) ==
    LET act == decide_action(vals)
        s0  == [last_direction |-> last_direction,
                search_intensity |-> search_intensity, cmds |-> <<>>]
        sm  == set_motor_action(act, s0, tun, ticks_diff(now, line_lost_time))
    IN
    /\ "line" \in due
    /\ robot_running /\ act = "LINE LOST" /\ line_lost => MayEscalate(search_intensity)
    /\ due' = due \ {"line"}
    /\ IF act = "ON JUNCTION"
       THEN OnJunction
       ELSE IF act = "LINE LOST"
       THEN /\ IF ~line_lost
               THEN /\ line_lost' = TRUE
                    /\ line_lost_time' = now
                    /\ Issue("line", <<>>)
                    /\ UNCHANGED <<last_direction, search_intensity, pass>>
               ELSE IF ticks_diff(now, line_lost_time) >= tun.grace_period
               THEN /\ Issue("line", <<StopAllMotors>>)
                    /\ Pass(<<StopAllMotors>>, TRUE)
                    /\ UNCHANGED <<line_lost, line_lost_time, last_direction, search_intensity>>
               ELSE /\ Issue("line", sm.cmds)
                    /\ Pass(sm.cmds, TRUE)
                    /\ last_direction' = sm.last_direction
                    /\ search_intensity' = sm.search_intensity
                    /\ UNCHANGED <<line_lost, line_lost_time>>
            /\ UNCHANGED <<robot_running, mission, polls>>
       ELSE /\ line_lost' = FALSE
            /\ Issue("line", sm.cmds)
            /\ Pass(sm.cmds, TRUE)
            /\ last_direction' = sm.last_direction
            /\ search_intensity' = sm.search_intensity
            /\ UNCHANGED <<robot_running, line_lost_time, mission, polls>>
    /\ UNCHANGED <<tun, server, hcmds, stopReturned>>

\* the callback when it reads the snapshot vals
LineFollowTick(vals) ==
    LET act == decide_action(vals)
        s0  == [last_direction |-> last_direction,
                search_intensity |-> search_intensity, cmds |-> <<>>]
        sm  == set_motor_action(act, s0, tun, ticks_diff(now, line_lost_time))
    IN
    /\ "line" \in due
    /\ robot_running /\ act = "LINE LOST" /\ line_lost => MayEscalate(search_intensity)
    /\ due' = due \ {"line"}
    /\ IF ~robot_running
       THEN /\ Issue("line", <<>>)
            /\ UNCHANGED <<follower, mission, polls, pass>>
       ELSE IF act = "ON JUNCTION"
       THEN OnJunction
       ELSE IF act = "LINE LOST"
       THEN /\ IF ~line_lost
               THEN /\ line_lost' = TRUE
                    /\ line_lost_time' = now
                    /\ Issue("line", <<>>)
                    /\ UNCHANGED <<last_direction, search_intensity, pass>>
               ELSE IF ticks_diff(now, line_lost_time) >= tun.grace_period
               THEN /\ Issue("line", <<StopAllMotors>>)
                    /\ Pass(<<StopAllMotors>>, TRUE)
                    /\ UNCHANGED <<line_lost, line_lost_time, last_direction, search_intensity>>
               ELSE /\ Issue("line", sm.cmds)
                    /\ Pass(sm.cmds, TRUE)
                    /\ last_direction' = sm.last_direction
                    /\ search_intensity' = sm.search_intensity
                    /\ UNCHANGED <<line_lost, line_lost_time>>
            /\ UNCHANGED <<robot_running, mission, polls>>
       ELSE /\ line_lost' = FALSE
            /\ Issue("line", sm.cmds)
            /\ Pass(sm.cmds, TRUE)
            /\ last_direction' = sm.last_direction
            /\ search_intensity' = sm.search_intensity
            /\ UNCHANGED <<robot_running, line_lost_time, mission, polls>>
    /\ UNCHANGED <<tun, server, hcmds, stopReturned>>

line_follow_callback(snapshots) == \E vals \in snapshots : LineFollowTick(vals)

\* ------------------------------------------------------------------------
\* mission_callback
\* ------------------------------------------------------------------------
\* the wheel commands that begin the 180 degree rotation (stage 7)
RotateWheels(t) ==
    IF t.rotate_dir = Left
    THEN Wheels("backward", t.rotate_speed, "forward", t.rotate_speed)
    ELSE Wheels("forward", t.rotate_speed, "backward", t.rotate_speed)

\* the dwell a stage waits for since mission_stage_started
StageDwell(stage, t) ==
    IF stage \in 1..6 THEN t.servo_settle_ms
    ELSE IF stage = 7 THEN t.reverse_time_ms
    ELSE IF stage = 8 THEN t.rotate_time_ms
    ELSE 0

\* StageCommands with stage 4 lowering the arm to the transport angle
StageCommands_Stage4Transport(stage, t) ==
    CASE stage = 0 -> <<control_servo(0, base_angle_for(t.base_first_side, t))>>
      [] stage = 1 -> <<control_servo(2, t.grip_close_angle)>>
      [] stage = 2 -> <<control_servo(1, t.arm_transport_angle)>>
      [] stage = 3 -> <<control_servo(0, base_angle_for(
                            IF t.base_first_side = Left THEN Right ELSE Left, t))>>
      [] stage = 4 -> <<control_servo(1, t.arm_transport_angle)>>
      [] stage = 5 -> <<control_servo(2, t.grip_open_angle)>>
      [] stage = 6 -> <<control_servo(1, t.arm_transport_angle)>>
                      \o Wheels("backward", t.reverse_speed, "backward", t.reverse_speed)
      [] stage = 7 -> <<StopAllMotors>> \o RotateWheels(t)
      [] stage = 8 -> <<StopAllMotors>>
      [] OTHER -> <<>>

\* what a stage issues when its dwell has elapsed
StageCommands(stage, t) ==
    CASE stage = 0 -> <<control_servo(0, base_angle_for(t.base_first_side, t))>>
      [] stage = 1 -> <<control_servo(2, t.grip_close_angle)>>
      [] stage = 2 -> <<control_servo(1, t.arm_transport_angle)>>
      [] stage = 3 -> <<control_servo(0, base_angle_for(
                            IF t.base_first_side = Left THEN Right ELSE Left, t))>>
      [] stage = 4 -> <<control_servo(1, t.arm_down_angle)>>
      [] stage = 5 -> <<control_servo(2, t.grip_open_angle)>>
      [] stage = 6 -> <<control_servo(1, t.arm_transport_angle)>>
                      \o Wheels("backward", t.reverse_speed, "backward", t.reverse_speed)
      [] stage = 7 -> <<StopAllMotors>> \o RotateWheels(t)
      [] stage = 8 -> <<StopAllMotors>>
      [] OTHER -> <<>>

\* the gate with the dwell one timer period short
StageReady_PeriodShort(stage, started, t) ==
    stage = 0 \/ ticks_diff(now, started) >= StageDwell(stage, t) - Period

\* the gate with the operands of ticks_diff exchanged
StageReady_Exchanged(stage, started, t) ==
    stage = 0 \/ ticks_diff(started, now) >= StageDwell(stage, t)

\* the stage's gate: ticks_diff(now, mission_stage_started) >= dwell
StageReady(stage, started, t) ==
    stage = 0 \/ ticks_diff(now, started) >= StageDwell(stage, t)

\* the callback returning early only in IDLE, not whenever mission_mode is
\* not "ARM_SEQ"
mission_callback_IdleOnly ==
    /\ "mission" \in due
    /\ due' = due \ {"mission"}
    /\ IF mission_mode = "IDLE"
       THEN /\ Issue("mission", <<>>)
            /\ polls' = 0
            /\ UNCHANGED <<follower, mission, pass>>
       ELSE IF mission_stage \in 0..8
       THEN IF StageReady(mission_stage, mission_stage_started, tun)
            THEN /\ Issue("mission", StageCommands(mission_stage, tun))
                 /\ Pass(StageCommands(mission_stage, tun), TRUE)
                 /\ mission_stage' = mission_stage + 1
                 \* stage 8 leaves the stamp alone
                 /\ mission_stage_started' =
                        IF mission_stage = 8 THEN mission_stage_started ELSE now
                 /\ polls' = 0
                 /\ UNCHANGED <<follower, mission_mode, mission_status_text>>
            ELSE /\ Issue("mission", <<>>)
                 /\ polls' = Min(polls + 1, MaxAge \div Period)
                 /\ UNCHANGED <<follower, mission, pass>>
       ELSE IF mission_stage = 9
       THEN /\ mission_mode' = "RETURNING"
            /\ mission_status_text' = "Returning to start"
            \* resume_line_follow()
            /\ robot_running' = TRUE
            /\ line_lost' = FALSE
            /\ search_intensity' = One
            /\ last_direction' = "FORWARD"
            /\ Issue("mission", <<>>)
            /\ Pass(<<>>, TRUE)
            /\ polls' = 0
            /\ UNCHANGED <<line_lost_time, mission_stage, mission_stage_started>>
       ELSE /\ Issue("mission", <<>>)
            /\ UNCHANGED <<follower, mission, polls, pass>>
    /\ UNCHANGED <<tun, server, hcmds, stopReturned>>

\* def mission_callback(timer)
mission_callback ==
    /\ "mission" \in due
    /\ due' = due \ {"mission"}
    /\ IF mission_mode # "ARM_SEQ"
       THEN /\ Issue("mission", <<>>)
            /\ polls' = 0
            /\ UNCHANGED <<follower, mission, pass>>
       ELSE IF mission_stage \in 0..8
       THEN IF StageReady(mission_stage, mission_stage_started, tun)
            THEN /\ Issue("mission", StageCommands(mission_stage, tun))
                 /\ Pass(StageCommands(mission_stage, tun), TRUE)
                 /\ mission_stage' = mission_stage + 1
                 \* stage 8 leaves the stamp alone
                 /\ mission_stage_started' =
                        IF mission_stage = 8 THEN mission_stage_started ELSE now
                 /\ polls' = 0
                 /\ UNCHANGED <<follower, mission_mode, mission_status_text>>
            ELSE /\ Issue("mission", <<>>)
                 /\ polls' = Min(polls + 1, MaxAge \div Period)
                 /\ UNCHANGED <<follower, mission, pass>>
       ELSE IF mission_stage = 9
       THEN /\ mission_mode' = "RETURNING"
            /\ mission_status_text' = "Returning to start"
            \* resume_line_follow()
            /\ robot_running' = TRUE
            /\ line_lost' = FALSE
            /\ search_intensity' = One
            /\ last_direction' = "FORWARD"
            /\ Issue("mission", <<>>)
            /\ Pass(<<>>, TRUE)
            /\ polls' = 0
            /\ UNCHANGED <<line_lost_time, mission_stage, mission_stage_started>>
       ELSE /\ Issue("mission", <<>>)
            /\ UNCHANGED <<follower, mission, polls, pass>>
    /\ UNCHANGED <<tun, server, hcmds, stopReturned>>

\* ------------------------------------------------------------------------
\* The server loop
\* ------------------------------------------------------------------------
\* a server step that issues the commands cs
ServerIssue(cs) ==
    /\ Issue("server", cs)
    /\ hcmds' = hcmds \o cs
    /\ Pass(cs, TRUE)
    /\ UNCHANGED polls

\* AfterKeys with the update branch running on into the start branch's
\* statements
AfterKeys_IntoStart(r, i) ==
    IF ReqNextKey[r][i] <= Len(Keys) THEN "key" ELSE "arm_base"

\* where the loop goes once the key statements before i are done: the next
\* key statement whose key is in the request, or the statements after them
AfterKeys(r, i) ==
    IF ReqNextKey[r][i] <= Len(Keys) THEN "key"
    ELSE IF ReqRoute[r] = "start" THEN "arm_base" ELSE "send"

\* client, addr = sock.accept(); request = client.recv(2048); the if / elif chain
Receive(menu) ==
    /\ hpc = "accept"
    /\ \E r \in menu :
          /\ req' = r
          /\ hkey' = IF ReqRoute[r] \in {"start", "update"} THEN ReqNextKey[r][1] ELSE 0
          /\ hpc' = CASE ReqRoute[r] \in {"start", "update"} -> AfterKeys(r, 1)
                      [] ReqRoute[r] = "stop" -> "stop_running"
                      [] OTHER -> "send"
          /\ stopReturned' = IF ReqRoute[r] = "start" THEN FALSE ELSE stopReturned
          /\ Pass(<<>>, ReqRoute[r] \notin {"start", "stop", "update"})
    /\ hcmds' = <<>>
    /\ Issue("server", <<>>)
    /\ UNCHANGED <<follower, mission, tun, due, polls>>

\* the assignment of the key statement j for request r, on tunables t:
\* ok = FALSE stands for the ValueError of int() / float().  In the start
\* branch a side key is assigned as received and checked by the statement
\* that follows; in the update branch it is assigned only if valid.
KeyAssign(r, j, t) ==
    LET k    == Keys[j]
        text == ReqText[r][j]
        n    == IF k.kind = "int" THEN ParseInt(text) ELSE ParseFloat(text)
    IN  IF k.kind = "side"
        THEN IF ReqRoute[r] = "start" \/ text \in {Left, Right}
             THEN [ok |-> TRUE, tun |-> [t EXCEPT ![k.field] = text]]
             ELSE [ok |-> TRUE, tun |-> t]
        ELSE IF n.ok
             THEN [ok |-> TRUE, tun |-> [t EXCEPT ![k.field] = n.val]]
             ELSE [ok |-> FALSE, tun |-> t]

\* start branch: if base_first_side not in ("left", "right"): base_first_side = "left"
\* (and the same for rotate_dir)
SideFix(j, t) ==
    IF t[Keys[j].field] \notin {Left, Right}
    THEN [t EXCEPT ![Keys[j].field] = Left] ELSE t

\* one `if "key=" in request_str:` statement of the start or update branch
\* whose key is in the request
KeyStatement ==
    LET a == KeyAssign(req, hkey, tun)
    IN
    /\ hpc = "key"
    /\ tun' = a.tun
    /\ IF ~a.ok
       THEN /\ hpc' = "except"
            /\ hkey' = hkey
       ELSE IF Keys[hkey].kind = "side" /\ ReqRoute[req] = "start"
       THEN /\ hpc' = "side_check"
            /\ hkey' = hkey
       ELSE /\ hkey' = ReqNextKey[req][hkey + 1]
            /\ hpc' = AfterKeys(req, hkey + 1)
    /\ ServerIssue(<<>>)
    /\ UNCHANGED <<follower, mission, due, req, stopReturned>>

SideCheck ==
    /\ hpc = "side_check"
    /\ tun' = SideFix(hkey, tun)
    /\ hkey' = ReqNextKey[req][hkey + 1]
    /\ hpc' = AfterKeys(req, hkey + 1)
    /\ ServerIssue(<<>>)
    /\ UNCHANGED <<follower, mission, due, req, stopReturned>>

\* StartArm with the pose taken from the tunables' defaults, not from the
\* values the request has set
StartArm_DefaultPose ==
    /\ hpc \in {"arm_base", "arm_arm", "arm_grip"}
    /\ CASE hpc = "arm_base" ->
              /\ ServerIssue(<<control_servo(0, DefaultTunables.base_center)>>)
              /\ hpc' = "arm_arm"
         [] hpc = "arm_arm"  ->
              /\ ServerIssue(<<control_servo(1, DefaultTunables.arm_transport_angle)>>)
              /\ hpc' = "arm_grip"
         [] hpc = "arm_grip" ->
              /\ ServerIssue(<<control_servo(2, DefaultTunables.grip_open_angle)>>)
              /\ hpc' = "start_mode"
    /\ UNCHANGED <<follower, mission, tun, due, req, hkey, stopReturned>>

\* start branch: arm.control_servo(0, base_center) ... (2, grip_open_angle)
StartArm ==
    /\ hpc \in {"arm_base", "arm_arm", "arm_grip"}
    /\ CASE hpc = "arm_base" -> /\ ServerIssue(<<control_servo(0, tun.base_center)>>)
                                /\ hpc' = "arm_arm"
         [] hpc = "arm_arm"  -> /\ ServerIssue(<<control_servo(1, tun.arm_transport_angle)>>)
                                /\ hpc' = "arm_grip"
         [] hpc = "arm_grip" -> /\ ServerIssue(<<control_servo(2, tun.grip_open_angle)>>)
                                /\ hpc' = "start_mode"
    /\ UNCHANGED <<follower, mission, tun, due, req, hkey, stopReturned>>

\* start branch: mission_mode = "OUTBOUND"
StartMode ==
    /\ hpc = "start_mode"
    /\ mission_mode' = "OUTBOUND"
    /\ hpc' = "start_status"
    /\ ServerIssue(<<>>)
    /\ UNCHANGED <<follower, mission_stage, mission_stage_started, mission_status_text,
                   tun, due, req, hkey, stopReturned>>

\* start branch: mission_status_text = "Going to end marker"
StartStatus ==
    /\ hpc = "start_status"
    /\ mission_status_text' = "Going to end marker"
    /\ hpc' = "resume_running"
    /\ ServerIssue(<<>>)
    /\ UNCHANGED <<follower, mission_mode, mission_stage, mission_stage_started,
                   tun, due, req, hkey, stopReturned>>

\* resume_line_follow(), called by the start branch, one assignment a step
resume_line_follow ==
    /\ hpc \in {"resume_running", "resume_lost", "resume_intensity", "resume_direction"}
    /\ CASE hpc = "resume_running" ->
              /\ robot_running' = TRUE
              /\ hpc' = "resume_lost"
              /\ UNCHANGED <<line_lost, search_intensity, last_direction>>
         [] hpc = "resume_lost" ->
              /\ line_lost' = FALSE
              /\ hpc' = "resume_intensity"
              /\ UNCHANGED <<robot_running, search_intensity, last_direction>>
         [] hpc = "resume_intensity" ->
              /\ search_intensity' = One
              /\ hpc' = "resume_direction"
              /\ UNCHANGED <<robot_running, line_lost, last_direction>>
         [] hpc = "resume_direction" ->
              /\ last_direction' = "FORWARD"
              /\ hpc' = "send"
              /\ UNCHANGED <<robot_running, line_lost, search_intensity>>
    /\ ServerIssue(<<>>)
    /\ UNCHANGED <<line_lost_time, mission, tun, due, req, hkey, stopReturned>>

\* stop branch, one statement a step
StopBranch ==
    /\ hpc \in {"stop_running", "stop_mode", "stop_status", "stop_motors"}
    /\ CASE hpc = "stop_running" ->
              /\ robot_running' = FALSE
              /\ hpc' = "stop_mode"
              /\ ServerIssue(<<>>)
              /\ UNCHANGED mission
         [] hpc = "stop_mode" ->
              /\ mission_mode' = "IDLE"
              /\ hpc' = "stop_status"
              /\ ServerIssue(<<>>)
              /\ UNCHANGED <<robot_running, mission_stage, mission_stage_started,
                             mission_status_text>>
         [] hpc = "stop_status" ->
              /\ mission_status_text' = "Stopped by user"
              /\ hpc' = "stop_motors"
              /\ ServerIssue(<<>>)
              /\ UNCHANGED <<robot_running, mission_mode, mission_stage,
                             mission_stage_started>>
         [] hpc = "stop_motors" ->
              /\ ServerIssue(<<StopAllMotors>>)
              /\ hpc' = "send"
              /\ UNCHANGED <<robot_running, mission>>
    /\ UNCHANGED <<line_lost, line_lost_time, last_direction, search_intensity,
                   tun, due, req, hkey, stopReturned>>

\* client.send(response.encode()); client.close(): the request has returned
Send ==
    /\ hpc = "send"
    /\ hpc' = "accept"
    /\ stopReturned' = IF ReqRoute[req] = "stop" THEN TRUE ELSE stopReturned
    /\ hcmds' = <<>>
    /\ Issue("server", <<>>)
    /\ UNCHANGED <<follower, mission, tun, due, req, hkey, polls, pass>>

\* Except with the exception leaving the loop: the server accepts no more
Except_Uncaught ==
    /\ hpc = "except"
    /\ hpc' = "halted"
    /\ hcmds' = <<>>
    /\ Issue("server", <<>>)
    /\ UNCHANGED <<follower, mission, tun, due, req, hkey, stopReturned, polls, pass>>

\* except Exception as e: print; client.close()
Except ==
    /\ hpc = "except"
    /\ hpc' = "accept"
    /\ hcmds' = <<>>
    /\ Issue("server", <<>>)
    /\ UNCHANGED <<follower, mission, tun, due, req, hkey, stopReturned, polls, pass>>

\* the statements of the server loop after the request is received
ServerStep ==
    \/ KeyStatement
    \/ SideCheck
    \/ StartArm
    \/ StartMode
    \/ StartStatus
    \/ resume_line_follow
    \/ StopBranch
    \/ Send
    \/ Except

RECURSIVE ApplyKeys(_, _, _)
\* the key statements of request r from statement i on, run to the end or to
\* the first ValueError
ApplyKeys(r, i, t) ==
    IF i > Len(Keys) THEN [ok |-> TRUE, tun |-> t]
    ELSE LET a == KeyAssign(r, i, t)
             fixed == IF Keys[i].kind = "side" /\ ReqRoute[r] = "start"
                      THEN SideFix(i, a.tun) ELSE a.tun
         IN  IF a.ok THEN ApplyKeys(r, ReqNextKey[r][i + 1], fixed)
             ELSE [ok |-> FALSE, tun |-> a.tun]

\* the arm commands of the start branch
StartPose(t) ==
    << control_servo(0, t.base_center), control_servo(1, t.arm_transport_angle),
       control_servo(2, t.grip_open_angle) >>

\* One pass of the server loop with no timer callback in between: a request
\* is received and served to the end
HandleRequest(menu) ==
    /\ hpc = "accept"
    /\ \E r \in menu :
         LET k == ApplyKeys(r, ReqNextKey[r][1], tun)
         IN
         /\ req' = r
         /\ Pass(<<>>, ReqRoute[r] \notin {"start", "stop", "update"})
         /\ CASE ReqRoute[r] = "start" /\ k.ok ->
                   /\ tun' = k.tun
                   /\ Issue("server", StartPose(k.tun))
                   /\ mission_mode' = "OUTBOUND"
                   /\ mission_status_text' = "Going to end marker"
                   /\ robot_running' = TRUE
                   /\ line_lost' = FALSE
                   /\ search_intensity' = One
                   /\ last_direction' = "FORWARD"
                   /\ stopReturned' = FALSE
                   /\ UNCHANGED <<line_lost_time, mission_stage, mission_stage_started>>
              [] ReqRoute[r] = "start" /\ ~k.ok ->
                   /\ tun' = k.tun
                   /\ Issue("server", <<>>)
                   /\ stopReturned' = FALSE
                   /\ UNCHANGED <<follower, mission>>
              [] ReqRoute[r] = "stop" ->
                   /\ robot_running' = FALSE
                   /\ mission_mode' = "IDLE"
                   /\ mission_status_text' = "Stopped by user"
                   /\ Issue("server", <<StopAllMotors>>)
                   /\ stopReturned' = TRUE
                   /\ UNCHANGED <<line_lost, line_lost_time, last_direction, search_intensity,
                                  mission_stage, mission_stage_started, tun>>
              [] ReqRoute[r] = "update" ->
                   /\ tun' = k.tun
                   /\ Issue("server", <<>>)
                   /\ UNCHANGED <<follower, mission, stopReturned>>
              [] OTHER ->
                   /\ Issue("server", <<>>)
                   /\ UNCHANGED <<follower, mission, tun, stopReturned>>
    /\ UNCHANGED <<due, hpc, hkey, hcmds, polls>>

\* The whole system on a line that is never lost: the two callbacks and the
\* server loop, statement by statement
Next ==
    \/ AdvanceClock
    \/ line_follow_callback(OnLineSnapshots)
    \/ mission_callback
    \/ Receive(ReqMenu)
    \/ ServerStep

Spec == Init /\ [][Next]_vars

\* The whole system on any line, each request served between two callbacks
NextFollow ==
    \/ AdvanceClock
    \/ line_follow_callback(Snapshots)
    \/ mission_callback
    \/ HandleRequest(FollowMenu)

SpecFollow == Init /\ [][NextFollow]_vars

\* the requests of the sequencer's specification: start and stop
SeqMenu == {1, 3}

\* the sequencer with both timers running for ever: the clock keeps
\* advancing and each callback runs once a period (Timer.PERIODIC); nothing
\* obliges a client to send a request
NextSeq ==
    \/ AdvanceClock
    \/ line_follow_callback(OnLineSnapshots)
    \/ mission_callback
    \/ HandleRequest(SeqMenu)

SpecSeq ==
    /\ Init /\ [][NextSeq]_vars
    /\ WF_vars(AdvanceClock)
    /\ WF_vars(line_follow_callback(OnLineSnapshots))
    /\ WF_vars(mission_callback)

\* ------------------------------------------------------------------------
\* The server loop with the operator's overrides
\* ------------------------------------------------------------------------
\* start and stop, and the start and update requests that carry overrides
ServerMenu == {1, 3} \cup 7..14

\* the robot on the line: centre sensor alone; centre and the one left of it
ServerSnapshots == {<<0, 0, 1, 0, 0>>, <<0, 0, 1, 1, 0>>}

NextServer ==
    \/ AdvanceClock
    \/ line_follow_callback(ServerSnapshots)
    \/ mission_callback
    \/ Receive(ServerMenu)
    \/ ServerStep

SpecServer == Init /\ [][NextServer]_vars

\* the same with each request served in one step
NextOverrides ==
    \/ AdvanceClock
    \/ line_follow_callback(ServerSnapshots)
    \/ mission_callback
    \/ HandleRequest(ServerMenu)

SpecOverrides == Init /\ [][NextOverrides]_vars

\* ------------------------------------------------------------------------
\* The server loop on a connection that fails
\* ------------------------------------------------------------------------
\* sock.accept(), client.recv(2048) or request.decode() raises: no branch of
\* the if / elif chain is entered
RecvFails ==
    /\ hpc = "accept"
    /\ hpc' = "except"
    /\ hcmds' = <<>>
    /\ Issue("server", <<>>)
    /\ UNCHANGED <<follower, mission, tun, due, req, hkey, stopReturned, polls, pass>>

\* client.send(response.encode()) raises after the branch's statements
SendFails ==
    /\ hpc = "send"
    /\ hpc' = "except"
    /\ hcmds' = <<>>
    /\ Issue("server", <<>>)
    /\ UNCHANGED <<follower, mission, tun, due, req, hkey, stopReturned, polls, pass>>

NextFaults ==
    \/ AdvanceClock
    \/ line_follow_callback(ServerSnapshots)
    \/ mission_callback
    \/ Receive(ServerMenu)
    \/ ServerStep
    \/ RecvFails
    \/ SendFails

SpecFaults == Init /\ [][NextFaults]_vars

\* ------------------------------------------------------------------------
\* decide_action on its own
\* ------------------------------------------------------------------------
\* the calls kept in the log
MaxCalls == 2

\* every reading of the five sensors
AllSnapshots == [1..5 -> {0, 1}]

\* one call of decide_action, after any other: the log keeps the latest
\* MaxCalls calls
Classify ==
    /\ \E vals \in AllSnapshots :
          LET call == [sensor_values |-> vals, action |-> decide_action(vals)]
              log  == Append(calls, call)
          IN  calls' = IF Len(log) > MaxCalls THEN Tail(log) ELSE log
    /\ UNCHANGED <<follower, mission, tun, due, server, by, cmds, hcmds,
                   stopReturned, polls, pass>>

NextClassify == Classify

SpecClassify == Init /\ [][NextClassify]_vars

\* ------------------------------------------------------------------------
\* set_motor_action on its own
\* ------------------------------------------------------------------------
\* every action set_motor_action has a branch for
Actions ==
    {"FORWARD", "SLIGHT RIGHT", "MILD RIGHT", "HARD RIGHT", "SLIGHT LEFT",
     "MILD LEFT", "HARD LEFT", "ON JUNCTION", "LINE LOST", "SEARCHING"}

\* the base speeds the calls are made with
MotionSpeeds == {30, 25, -25}

\* one call set_motor_action(action)
Motion(action) ==
    LET s0 == [last_direction |-> last_direction,
               search_intensity |-> search_intensity, cmds |-> <<>>]
        sm == set_motor_action(action, s0, tun, ticks_diff(now, line_lost_time))
    IN  /\ action = "LINE LOST" => MayEscalate(search_intensity)
        /\ last_direction' = sm.last_direction
        /\ search_intensity' = sm.search_intensity
        /\ Issue("line", sm.cmds)
        /\ UNCHANGED <<robot_running, line_lost, line_lost_time, mission, tun, due,
                       server, hcmds, stopReturned, polls, pass>>

\* the operator sets base_speed between two calls
SetSpeed ==
    /\ \E v \in MotionSpeeds : tun' = [tun EXCEPT !.base_speed = v]
    /\ UNCHANGED <<follower, mission, due, server, by, cmds, hcmds, stopReturned,
                   polls, pass, calls>>

\* the line is lost just now, or was lost longer ago than any grace period
SetLost ==
    /\ line_lost_time' \in {now, -MaxAge}
    /\ UNCHANGED <<robot_running, line_lost, last_direction, search_intensity,
                   mission, tun, due, server, by, cmds, hcmds, stopReturned,
                   polls, pass, calls>>

NextMotion ==
    \/ \E action \in Actions : Motion(action)
    \/ SetSpeed
    \/ SetLost

SpecMotion == Init /\ [][NextMotion]_vars

\* ------------------------------------------------------------------------
\* Properties
\* ------------------------------------------------------------------------

HasDrive(cs) == \E i \in 1..Len(cs) : cs[i].op = "TurnMotor"

\* the step in which the server loop sends the response of a request routed
\* to the branch route and closes the connection
Returns(route) == hpc = "send" /\ hpc' = "accept" /\ ReqRoute[req] = route

\* the step in which the server loop abandons a request routed to the
\* branch route in its exception handler
Aborts(route) == hpc = "except" /\ hpc' = "accept" /\ ReqRoute[req] = route

\* C1: from the moment a stop request has returned until the next start
\* request is received, neither timer callback issues a command that drives
\* a wheel motor.
C1_NoDriveAfterStop ==
    stopReturned /\ by \in {"line", "mission"} => ~HasDrive(cmds)

\* C2: in the step in which a stop request returns, mission_mode is IDLE,
\* robot_running is false, and the handler has issued the all-stop command.
C2_StopPostcondition ==
    [][Returns("stop") =>
          /\ mission_mode = "IDLE"
          /\ ~robot_running
          /\ \E i \in 1..Len(hcmds) : hcmds[i] = StopAllMotors]_vars

\* C3: every start request ends, whether it returns or is abandoned, with
\* mission_mode OUTBOUND, robot_running true, line_lost false,
\* search_intensity 1.0 and last_direction FORWARD.
C3_StartPostcondition ==
    [][Returns("start") \/ Aborts("start") =>
          /\ mission_mode = "OUTBOUND"
          /\ robot_running
          /\ ~line_lost
          /\ search_intensity = One
          /\ last_direction = "FORWARD"]_vars

\* a step of the line-follow callback that runs with robot_running true and
\* reads a snapshot decide_action classifies as ON JUNCTION
JunctionTick ==
    \E vals \in Snapshots :
        /\ decide_action(vals) = "ON JUNCTION"
        /\ robot_running
        /\ LineFollowTick(vals)

\* C4: every change of mission_mode is one of: to OUTBOUND by the start
\* branch; to IDLE by the stop branch; OUTBOUND to ARM_SEQ by a line-follow
\* tick on a junction; ARM_SEQ to RETURNING by the mission callback at
\* stage 9; RETURNING to DONE by a line-follow tick on a junction.
C4_ModeTransitions ==
    [][mission_mode' # mission_mode =>
          \/ StartMode /\ mission_mode' = "OUTBOUND"
          \/ StopBranch /\ mission_mode' = "IDLE"
          \/ JunctionTick /\ mission_mode = "OUTBOUND" /\ mission_mode' = "ARM_SEQ"
          \/ /\ mission_callback
             /\ mission_mode = "ARM_SEQ" /\ mission_stage = 9
             /\ mission_mode' = "RETURNING"
          \/ JunctionTick /\ mission_mode = "RETURNING" /\ mission_mode' = "DONE"]_vars

\* the junction tick of the return leg has just set DONE
C4_Witness ==
    mission_mode = "DONE" /\ by = "line" /\ ~robot_running

\* C5: a line-follow tick that runs with robot_running true and classifies
\* ON JUNCTION issues the all-stop and nothing else and clears
\* robot_running; from OUTBOUND it enters ARM_SEQ with stage 0 stamped now,
\* from RETURNING it enters DONE, and in any other mode it leaves mode and
\* stage alone.
C5_JunctionTick ==
    [][JunctionTick =>
          /\ by' = "line" /\ cmds' = <<StopAllMotors>>
          /\ ~robot_running'
          /\ mission_mode = "OUTBOUND" =>
                /\ mission_mode' = "ARM_SEQ"
                /\ mission_stage' = 0
                /\ mission_stage_started' = now
          /\ mission_mode = "RETURNING" => mission_mode' = "DONE"
          /\ mission_mode \notin {"OUTBOUND", "RETURNING"} =>
                /\ mission_mode' = mission_mode
                /\ mission_stage' = mission_stage]_vars

\* a junction tick has just entered ARM_SEQ
C5_Witness ==
    /\ mission_mode = "ARM_SEQ" /\ mission_stage = 0
    /\ mission_stage_started = now
    /\ ~robot_running
    /\ by = "line" /\ cmds = <<StopAllMotors>>

\* a step of the mission callback that runs in ARM_SEQ
SequencerTick ==
    /\ mission_mode = "ARM_SEQ"
    /\ "mission" \in due /\ "mission" \notin due'

\* C6: the mission callback advances stages 1..6 only when at least
\* servo_settle_ms have elapsed since mission_stage_started, stage 7 only
\* after reverse_time_ms and stage 8 only after rotate_time_ms; with
\* servo_settle_ms = 600 a stage in 1..6 advances only after at least 11
\* callbacks have found it unchanged since it was entered.
C6_DwellGate ==
    [][SequencerTick /\ mission_stage' # mission_stage =>
          LET elapsed == ticks_diff(now, mission_stage_started) IN
          /\ mission_stage \in 1..6 => elapsed >= tun.servo_settle_ms
          /\ mission_stage = 7 => elapsed >= tun.reverse_time_ms
          /\ mission_stage = 8 => elapsed >= tun.rotate_time_ms
          /\ mission_stage \in 1..6 /\ tun.servo_settle_ms = 600 => polls >= 11]_vars

\* stage 1 has just advanced after its dwell of 600 ms
C6_Witness ==
    /\ mission_mode = "ARM_SEQ" /\ mission_stage = 2
    /\ mission_stage_started = now
    /\ tun.servo_settle_ms = 600
    /\ by = "mission" /\ cmds = <<control_servo(2, tun.grip_close_angle)>>

\* the base angle of a side, clamped to the servo's range
SideAngle(side, t) ==
    LET a == IF side = Left THEN t.base_center - t.base_offset_deg
                            ELSE t.base_center + t.base_offset_deg
    IN IF a < 0 THEN 0 ELSE IF a > 180 THEN 180 ELSE a

\* the commands of a whole sequence, stage by stage
ExpectedPass(t) ==
    LET first    == t.base_first_side
        opposite == IF first = Left THEN Right ELSE Left
        spin     == IF t.rotate_dir = Left THEN <<"backward", "forward">>
                                           ELSE <<"forward", "backward">>
    IN << << control_servo(0, SideAngle(first, t)) >>,
          << control_servo(2, t.grip_close_angle) >>,
          << control_servo(1, t.arm_transport_angle) >>,
          << control_servo(0, SideAngle(opposite, t)) >>,
          << control_servo(1, t.arm_down_angle) >>,
          << control_servo(2, t.grip_open_angle) >>,
          << control_servo(1, t.arm_transport_angle),
             TurnMotor("LeftFront", "backward", t.reverse_speed),
             TurnMotor("LeftBack", "backward", t.reverse_speed),
             TurnMotor("RightFront", "backward", t.reverse_speed),
             TurnMotor("RightBack", "backward", t.reverse_speed) >>,
          << StopAllMotors,
             TurnMotor("LeftFront", spin[1], t.rotate_speed),
             TurnMotor("LeftBack", spin[1], t.rotate_speed),
             TurnMotor("RightFront", spin[2], t.rotate_speed),
             TurnMotor("RightBack", spin[2], t.rotate_speed) >>,
          << StopAllMotors >> >>

RECURSIVE ExpectedUpTo(_, _)
\* the commands of the stages before stage n
ExpectedUpTo(n, t) ==
    IF n = 0 THEN <<>> ELSE ExpectedUpTo(n - 1, t) \o ExpectedPass(t)[n]

\* C7: in a sequence that began with the server loop idle and during which
\* no start, stop or update request is received, the stage goes from 0 to 9
\* one at a time, the commands issued so far by anyone are exactly those of
\* the stages passed, in the order base to the first side, gripper close,
\* arm transport, base to the opposite side, arm down, gripper open, arm
\* transport with the four wheels backward, all-stop with the rotation,
\* all-stop; and ARM_SEQ is left only from stage 9, to RETURNING, with the
\* commands of all nine stages issued.
C7_FullPass ==
    [][passClean =>
          /\ mission_stage \in 0..9
          /\ passLog = ExpectedUpTo(mission_stage, tun)
          /\ mission_mode = "ARM_SEQ" =>
                /\ mission_stage' \in {mission_stage, mission_stage + 1}
                /\ mission_mode' # "ARM_SEQ" =>
                      mission_stage = 9 /\ mission_mode' = "RETURNING"
          /\ mission_mode # "ARM_SEQ" =>
                mission_stage = 9 /\ mission_mode \in {"RETURNING", "DONE"}]_vars

\* the last stage of an undisturbed sequence has issued its all-stop
C7_Witness ==
    /\ passClean
    /\ mission_mode = "ARM_SEQ" /\ mission_stage = 9
    /\ Len(passLog) = 17
    /\ by = "mission" /\ cmds = <<StopAllMotors>>

\* the line follower as resume_line_follow leaves it, on the return leg
HandedOver ==
    /\ mission_mode = "RETURNING"
    /\ robot_running /\ ~line_lost
    /\ search_intensity = One
    /\ last_direction = "FORWARD"

\* C8: with the clock advancing and both callbacks firing, a sequence
\* entered at stage 0 leads, unless a start, stop or update request is
\* received, to RETURNING with robot_running true, line_lost false,
\* search_intensity 1.0 and last_direction FORWARD; from there, unless a
\* request is received, the line-follow callback issues the next command;
\* and the mission callback issues none while the mode is RETURNING.
C8_HandOver ==
    /\ (passClean /\ mission_mode = "ARM_SEQ" /\ mission_stage = 0)
          ~> (HandedOver \/ ~passClean)
    /\ (passClean /\ HandedOver)
          ~> ((by = "line" /\ mission_mode \in {"RETURNING", "DONE"}) \/ ~passClean)
    /\ [](mission_mode = "RETURNING" => by # "mission")

\* an undisturbed sequence has just handed over to the line follower
C8_Witness ==
    /\ passClean /\ HandedOver
    /\ Len(passLog) = 17
    /\ "mission" \notin due /\ "line" \in due

\* C9: a line-follow tick that classifies LINE LOST while the line is
\* already flagged lost and the grace period has not expired multiplies
\* search_intensity by 1.5, whatever last_direction is; a tick with any
\* other classification leaves search_intensity at 1.0; and so does a
\* step that sets robot_running.
C9_SearchEscalation ==
    [][/\ \A vals \in Snapshots :
             robot_running /\ LineFollowTick(vals) =>
                /\ ( /\ decide_action(vals) = "LINE LOST"
                     /\ line_lost
                     /\ ticks_diff(now, line_lost_time) < tun.grace_period )
                      => search_intensity' = Times15(search_intensity)
                /\ decide_action(vals) # "LINE LOST" => search_intensity' = One
       /\ ~robot_running /\ robot_running' => search_intensity' = One]_vars

\* C10: a line-follow tick that classifies LINE LOST when at least
\* grace_period has elapsed since line_lost_time issues the all-stop and
\* leaves search_intensity at 1.0.
C10_GraceExpiry ==
    [][\A vals \in Snapshots :
          ( /\ robot_running /\ LineFollowTick(vals)
            /\ decide_action(vals) = "LINE LOST"
            /\ line_lost
            /\ ticks_diff(now, line_lost_time) >= tun.grace_period )
          => /\ by' = "line" /\ cmds' = <<StopAllMotors>>
             /\ search_intensity' = One]_vars

\* the snapshot with the sensor at index i (1 the rightmost) active alone
Single(i) == [j \in 1..5 |-> IF j = i THEN 1 ELSE 0]

\* C11 as stated: a snapshot with one sensor active, at index i, is
\* classified HARD RIGHT if the weight of i is positive and HARD LEFT if it
\* is negative, and as a HARD variant in every case.
C11_SingleSensorHard ==
    \A c \in 1..Len(calls) : \A i \in 1..5 :
        calls[c].sensor_values = Single(i) =>
            /\ calls[c].action \in {"HARD RIGHT", "HARD LEFT"}
            /\ <<2, 1, 0, -1, -2>>[i] > 0 => calls[c].action = "HARD RIGHT"
            /\ <<2, 1, 0, -1, -2>>[i] < 0 => calls[c].action = "HARD LEFT"

\* C11 amended: a snapshot with one sensor active is classified by the
\* weight of that sensor: HARD RIGHT for 2, MILD RIGHT for 1, FORWARD for
\* 0, MILD LEFT for -1, HARD LEFT for -2.
C11_SingleSensorByWeight ==
    \A c \in 1..Len(calls) : \A i \in 1..5 :
        calls[c].sensor_values = Single(i) =>
            calls[c].action =
                <<"HARD RIGHT", "MILD RIGHT", "FORWARD", "MILD LEFT", "HARD LEFT">>[i]

\* the rightmost sensor alone, then the one next to the leftmost alone
C11_Witness ==
    /\ Len(calls) = 2
    /\ calls[1] = [sensor_values |-> <<1, 0, 0, 0, 0>>, action |-> "HARD RIGHT"]
    /\ calls[2] = [sensor_values |-> <<0, 0, 0, 1, 0>>, action |-> "MILD LEFT"]

\* the classifier of reference: sum and count of the active sensors'
\* weights, the mean compared with 1.2 = 6/5, 0.6 = 3/5 and 0.2 = 1/5
Reference(v) ==
    LET w     == <<2, 1, 0, -1, -2>>
        on    == {i \in 1..5 : v[i] = 1}
        n     == Cardinality(on)
        total == Cardinality({i \in on : w[i] = 1}) - Cardinality({i \in on : w[i] = -1})
                 + 2 * Cardinality({i \in on : w[i] = 2})
                 - 2 * Cardinality({i \in on : w[i] = -2})
    IN  CASE n = 5 -> "ON JUNCTION"
          [] n = 0 -> "LINE LOST"
          [] n \in 1..4 /\ 5 * total > 6 * n -> "HARD RIGHT"
          [] n \in 1..4 /\ 5 * total <= 6 * n /\ 5 * total > 3 * n -> "MILD RIGHT"
          [] n \in 1..4 /\ 5 * total <= 3 * n /\ 5 * total > n -> "SLIGHT RIGHT"
          [] n \in 1..4 /\ 5 * total < -6 * n -> "HARD LEFT"
          [] n \in 1..4 /\ 5 * total >= -6 * n /\ 5 * total < -3 * n -> "MILD LEFT"
          [] n \in 1..4 /\ 5 * total >= -3 * n /\ 5 * total < -n -> "SLIGHT LEFT"
          [] n \in 1..4 /\ total = 0 -> "FORWARD"
          [] OTHER -> "SEARCHING"

\* C12: every call of decide_action returns what the classifier of
\* reference returns for its snapshot, whatever call came before it, and a
\* call changes nothing but the log of calls.
C12_Classifier ==
    [][/\ \A c \in 1..Len(calls) :
             calls[c].action = Reference(calls[c].sensor_values)
       /\ calls' # calls =>
             UNCHANGED <<follower, mission, tun, due, server>>]_vars

\* two sensors right of centre after the junction: mean 1.5 after mean 0
C12_Witness ==
    /\ Len(calls) = 2
    /\ calls[1] = [sensor_values |-> <<1, 1, 1, 1, 1>>, action |-> "ON JUNCTION"]
    /\ calls[2] = [sensor_values |-> <<0, 1, 1, 0, 0>>, action |-> "SLIGHT RIGHT"]

\* the query of the request carries the parameter key ("name=")
HasParam(request_str, key) == In(<<"&">> \o key, request_str)

\* the text of that parameter's value
ParamText(request_str, key) == Split0(Split1(request_str, <<"&">> \o key), <<"&">>)

\* the number a numeric parameter's text stands for
ParamValue(request_str, j) ==
    IF Keys[j].kind = "int" THEN ParseInt(ParamText(request_str, Keys[j].key))
    ELSE ParseFloat(ParamText(request_str, Keys[j].key))

\* the step in which the server loop is done with a start or update request
Finishes == hpc # "accept" /\ hpc' = "accept" /\ ReqRoute[req] \in {"start", "update"}

\* C13: when the server loop is done with a start or update request, the
\* response has been sent, every numeric override of the query whose value
\* parses has been applied, also next to one whose value does not, and a
\* start request has set OUTBOUND and robot_running.
C13_MalformedSkipped ==
    [][Finishes =>
          /\ hpc = "send"
          /\ \A j \in 1..Len(Keys) :
                ( /\ Keys[j].kind # "side"
                  /\ HasParam(Requests[req], Keys[j].key)
                  /\ ParamValue(Requests[req], j).ok )
                => tun[Keys[j].field] = ParamValue(Requests[req], j).val
          /\ ReqRoute[req] = "start" =>
                mission_mode = "OUTBOUND" /\ robot_running]_vars

\* a step of the server loop on an update request: receiving it, one of
\* its statements, sending the response or abandoning the request
UpdateStep ==
    \/ hpc = "accept" /\ hpc' # "accept" /\ ReqRoute[req'] = "update"
    \/ /\ hpc # "accept" /\ ReqRoute[req] = "update"
       /\ <<hpc, hkey>>' # <<hpc, hkey>>

\* C14: no step of the server loop on an update request changes
\* mission_mode, mission_stage, mission_stage_started, robot_running,
\* line_lost, line_lost_time, last_direction or search_intensity, or issues
\* a command; the request ends with no command issued by the loop.
C14_UpdateFrame ==
    [][UpdateStep =>
          /\ UNCHANGED <<mission_mode, mission_stage, mission_stage_started,
                         robot_running, line_lost, line_lost_time,
                         last_direction, search_intensity>>
          /\ cmds' = <<>>
          /\ hcmds = <<>>]_vars

\* an update has set its override during a mission and is about to reply
C14_Witness ==
    /\ hpc = "send" /\ req = 10
    /\ tun.base_speed = 35
    /\ robot_running /\ mission_mode = "OUTBOUND"
    /\ last_direction = "SLIGHT LEFT"

\* C15: a request changes a tunable only when the query carries that
\* tunable's own key, and a numeric tunable then holds the value given under
\* that key: reverse_speed= or rotate_speed= without speed= leaves base_speed
\* alone, and with speed= next to reverse_speed= base_speed is the value of
\* speed=, in either order.
C15_OwnKeyOnly ==
    [][\A j \in 1..Len(Keys) :
          tun'[Keys[j].field] # tun[Keys[j].field] =>
             /\ HasParam(Requests[req'], Keys[j].key)
             /\ Keys[j].kind # "side" =>
                   tun'[Keys[j].field] = ParamValue(Requests[req'], j).val]_vars

\* C16: a start or update request whose first_side= or rotate_dir= value is
\* neither "left" nor "right" leaves base_first_side, respectively
\* rotate_dir, at the value it had before the request.
C16_InvalidSideIgnored ==
    [][HandleRequest(ServerMenu) =>
          \A j \in 1..Len(Keys) :
             ( /\ Keys[j].kind = "side"
               /\ ReqRoute[req'] \in {"start", "update"}
               /\ HasParam(Requests[req'], Keys[j].key)
               /\ ParamText(Requests[req'], Keys[j].key) \notin {Left, Right} )
             => tun'[Keys[j].field] = tun[Keys[j].field]]_vars

\* C17: every duty given to TurnMotor lies in 0..100, the recovery pivot's
\* int(base_speed * search_ratio * search_intensity) included, however many
\* LINE LOST ticks came before.
C17_DutyInRange ==
    \A i \in 1..Len(cmds) :
        cmds[i].op = "TurnMotor" => cmds[i].val \in 0..100

\* C18: every angle given to control_servo lies in 0..180, whatever values
\* the operator has set.
C18_AngleInRange ==
    \A i \in 1..Len(cmds) :
        cmds[i].op = "control_servo" => cmds[i].val \in 0..180

\* C19: no executor sees half of a write of the mission state: a step that
\* sets mission_mode to ARM_SEQ leaves mission_stage 0 and
\* mission_stage_started stamped with the current time, and whenever
\* mission_callback reads mission_mode = "RETURNING", robot_running is TRUE.
C19_NoTornRead ==
    [][ /\ (mission_mode # "ARM_SEQ" /\ mission_mode' = "ARM_SEQ") =>
              (mission_stage' = 0 /\ mission_stage_started' = now)
        /\ (mission_callback /\ mission_mode = "RETURNING") => robot_running
      ]_vars

\* the server loop is in the override statements of a start request
InOverrides == hpc \in {"key", "side_check"} /\ ReqRoute[req] = "start"

\* C20: a start request has applied every numeric override of its query
\* when it commands the arm; it has commanded base_center,
\* arm_transport_angle and grip_open_angle, at their values after the
\* overrides and in this order, when it sets mission_mode to OUTBOUND; it
\* sets robot_running after mission_mode and nowhere earlier; and a
\* line-follow tick that drives while the overrides are being applied does
\* so only with robot_running set before this request.
C20_StartOrder ==
    [][ /\ (hpc = "arm_base" /\ ReqRoute[req] = "start") =>
              /\ hcmds = <<>>
              /\ \A j \in 1..Len(Keys) :
                    (Keys[j].kind # "side" /\ HasParam(Requests[req], Keys[j].key))
                    => tun[Keys[j].field] = ParamValue(Requests[req], j).val
        /\ StartMode =>
              /\ hcmds = StartPose(tun)
              /\ mission_mode' = "OUTBOUND"
        /\ (hpc = "resume_running" /\ hpc' # hpc) =>
              /\ robot_running'
              /\ hcmds = StartPose(tun)
        /\ (hpc \notin {"accept", "resume_running"} /\ ReqRoute[req] = "start"
              /\ hpc' # hpc) => UNCHANGED robot_running
        /\ (InOverrides /\ by' = "line" /\ HasDrive(cmds')) =>
              (robot_running /\ UNCHANGED <<tun, hpc>>)
      ]_vars

\* a start request with overrides has commanded the arm with the values it
\* set, and has set OUTBOUND and robot_running
C20_Witness ==
    /\ req = 14 /\ hpc = "resume_lost"
    /\ tun.base_center = 200
    /\ hcmds = StartPose(tun)
    /\ mission_mode = "OUTBOUND" /\ robot_running

\* C21: a request that fails (in accept / recv / decode, in int() or
\* float(), or in send) changes neither mission_mode nor robot_running nor
\* the timers' schedule by failing; the except handler does the same, issues
\* no command and returns the loop to accept, where the next request is
\* received; both timer callbacks run as they would have.
C21_FailureContained ==
    [][ /\ (hpc # "except" /\ hpc' = "except") =>
              /\ UNCHANGED <<mission, follower, due>>
              /\ cmds' = <<>>
        /\ (hpc = "except" /\ hpc' # hpc) =>
              /\ hpc' = "accept"
              /\ UNCHANGED <<mission, follower, tun, due>>
              /\ cmds' = <<>>
        /\ hpc \in {"accept", "except"} =>
              /\ "line" \in due => ENABLED line_follow_callback(ServerSnapshots)
              /\ "mission" \in due => ENABLED mission_callback
        /\ hpc = "accept" => ENABLED Receive(ServerMenu)
      ]_vars

\* an update request has failed on its first override during a mission
C21_Witness ==
    /\ hpc = "except" /\ req = 7
    /\ robot_running /\ mission_mode = "OUTBOUND"
    /\ last_direction = "SLIGHT LEFT"

\* what set_motor_action(act) makes of the follower's globals
Delegated(act) ==
    set_motor_action(act,
                     [last_direction |-> last_direction,
                      search_intensity |-> search_intensity, cmds |-> <<>>],
                     tun, ticks_diff(now, line_lost_time))

\* the step is a call of set_motor_action(act) and nothing else on
\* last_direction, search_intensity and the motors
Delegates(act) ==
    /\ cmds' = Delegated(act).cmds
    /\ last_direction' = Delegated(act).last_direction
    /\ search_intensity' = Delegated(act).search_intensity

\* C22: a line-follow tick with robot_running that reads LINE LOST (a) with
\* line_lost FALSE sets line_lost and stamps line_lost_time, issues no
\* command and leaves search_intensity alone; (b) with line_lost TRUE and
\* the grace period over issues StopAllMotors alone and leaves
\* last_direction and search_intensity alone; (c) otherwise is a call of
\* set_motor_action; in all three robot_running and mission_mode stay.  A
\* tick that reads neither LINE LOST nor ON JUNCTION clears line_lost and is
\* a call of set_motor_action.
C22_LostTick ==
    [][\A vals \in Snapshots :
          (robot_running /\ LineFollowTick(vals)) =>
             LET act == decide_action(vals) IN
             /\ act = "LINE LOST" =>
                   /\ IF ~line_lost
                      THEN /\ line_lost' /\ line_lost_time' = now
                           /\ cmds' = <<>>
                           /\ UNCHANGED <<search_intensity, last_direction>>
                      ELSE IF ticks_diff(now, line_lost_time) >= tun.grace_period
                      THEN /\ cmds' = <<StopAllMotors>>
                           /\ UNCHANGED <<line_lost, line_lost_time,
                                          search_intensity, last_direction>>
                      ELSE /\ Delegates(act)
                           /\ UNCHANGED <<line_lost, line_lost_time>>
                   /\ robot_running'
                   /\ UNCHANGED mission_mode
             /\ act \notin {"LINE LOST", "ON JUNCTION"} =>
                   /\ ~line_lost'
                   /\ Delegates(act)
                   /\ robot_running'
                   /\ UNCHANGED mission_mode]_vars

\* the tick at which the grace period is over has stopped the motors and
\* kept the escalated search_intensity
C22_Witness ==
    /\ by = "line" /\ cmds = <<StopAllMotors>>
    /\ robot_running /\ line_lost
    /\ mission_mode = "OUTBOUND"
    /\ search_intensity # One

\* the ratio of a directional action, in hundredths
RatioOf(action) ==
    CASE action \in {"SLIGHT LEFT", "SLIGHT RIGHT"} -> tun.slight_ratio
      [] action \in {"MILD LEFT", "MILD RIGHT"}     -> tun.mild_ratio
      [] action \in {"HARD LEFT", "HARD RIGHT"}     -> tun.hard_ratio
      [] OTHER                                      -> 100

\* q is x / 100 truncated toward zero
Truncates(q, x) ==
    IF x >= 0 THEN 100 * q <= x /\ x < 100 * (q + 1)
    ELSE 100 * q >= x /\ x > 100 * (q - 1)

\* C23: set_motor_action on FORWARD or a LEFT / RIGHT variant commands the
\* four wheels forward, the outer pair at base_speed and the inner pair at
\* base_speed * ratio truncated toward zero (ratio by severity; the left
\* pair is the inner one for LEFT, the right pair for RIGHT); afterwards
\* last_direction is the action and search_intensity is 1.0.  With
\* base_speed 30 and slight_ratio 0.9 the snapshot of mean weight 0.5 gives
\* SLIGHT RIGHT, left pair 30, right pair 27.
C23_Directional ==
    [][\A action \in Actions \ {"ON JUNCTION", "LINE LOST", "SEARCHING"} :
          Motion(action) =>
             /\ Len(cmds') = 4
             /\ \A i \in 1..4 : cmds'[i].op = "TurnMotor" /\ cmds'[i].dir = "forward"
             /\ <<cmds'[1].motor, cmds'[2].motor, cmds'[3].motor, cmds'[4].motor>>
                   = <<"LeftFront", "LeftBack", "RightFront", "RightBack">>
             /\ cmds'[1].val = cmds'[2].val /\ cmds'[3].val = cmds'[4].val
             /\ IF HasLeft(action)
                THEN /\ Truncates(cmds'[1].val, tun.base_speed * RatioOf(action))
                     /\ cmds'[3].val = tun.base_speed
                ELSE /\ cmds'[1].val = tun.base_speed
                     /\ Truncates(cmds'[3].val, tun.base_speed * RatioOf(action))
             /\ last_direction' = action
             /\ search_intensity' = One
             /\ ( /\ action = decide_action(<<0, 1, 1, 0, 0>>)
                  /\ tun.base_speed = 30 /\ tun.slight_ratio = 90 )
                => /\ action = "SLIGHT RIGHT"
                   /\ cmds'[1].val = 30 /\ cmds'[3].val = 27]_vars

\* a MILD LEFT has been commanded at base_speed 25 after a recovery pivot:
\* the left pair runs at int(18.75) = 18
C23_Witness ==
    /\ last_direction = "MILD LEFT" /\ tun.base_speed = 25
    /\ cmds = Wheels("forward", 18, "forward", 25)
    /\ search_intensity = One

\* C24: set_motor_action("ON JUNCTION") issues StopAllMotors, sets
\* search_intensity to 1.0 and leaves last_direction as it was.
C24_OnJunctionFrame ==
    [][Motion("ON JUNCTION") =>
          /\ cmds' = <<StopAllMotors>>
          /\ search_intensity' = One
          /\ UNCHANGED last_direction]_vars

\* the call reads a line lost for less than the grace period
InGrace == ticks_diff(now, line_lost_time) < tun.grace_period

\* C25: set_motor_action on LINE LOST or SEARCHING within the grace period
\* drives the left pair forward and the right pair backward if
\* last_direction is a RIGHT variant, the left pair backward and the right
\* pair forward if it is a LEFT variant, all four at
\* int(base_speed * search_ratio * search_intensity), where search_intensity
\* has first been multiplied by 1.5 for LINE LOST and is as it was for
\* SEARCHING; with last_direction FORWARD all four wheels go forward at
\* base_speed.  Neither action changes last_direction.
C25_RecoveryPivot ==
    [][\A action \in {"LINE LOST", "SEARCHING"} :
          Motion(action) =>
             LET used == IF action = "LINE LOST"
                         THEN <<3 * search_intensity[1], 2 * search_intensity[2]>>
                         ELSE search_intensity
                 duty == TurnSpeed(tun, used)
             IN
             /\ UNCHANGED last_direction
             /\ (InGrace /\ HasRight(last_direction)) =>
                   /\ cmds' = Wheels("forward", duty, "backward", duty)
                   /\ search_intensity' = used
             /\ (InGrace /\ HasLeft(last_direction)) =>
                   /\ cmds' = Wheels("backward", duty, "forward", duty)
                   /\ search_intensity' = used
             /\ (InGrace /\ last_direction = "FORWARD") =>
                   /\ cmds' = Wheels("forward", tun.base_speed, "forward", tun.base_speed)
                   /\ action = "SEARCHING" => UNCHANGED search_intensity]_vars

\* the second LINE LOST in a row after a HARD RIGHT: the pivot runs at
\* int(30 * 0.4 * 2.25) = 27
C25_Witness ==
    /\ last_direction = "HARD RIGHT"
    /\ search_intensity = <<9, 4>>
    /\ tun.base_speed = 30
    /\ cmds = Wheels("forward", 27, "backward", 27)

\* C26: a line-follow tick with robot_running FALSE issues no command and
\* leaves mission_mode, mission_stage, line_lost, line_lost_time,
\* last_direction and search_intensity (and robot_running) as they were.
C26_IdleTick ==
    [][\A vals \in Snapshots :
          (~robot_running /\ LineFollowTick(vals)) =>
             /\ cmds' = <<>>
             /\ UNCHANGED <<mission_mode, mission_stage, line_lost, line_lost_time,
                            last_direction, search_intensity, robot_running>>]_vars

\* the line-follow timer has fired in the current period while the arm
\* sequence is at stage 3 and the follower is off
C26_Witness ==
    /\ mission_mode = "ARM_SEQ" /\ mission_stage = 3
    /\ ~robot_running /\ hpc = "accept"
    /\ "line" \notin due

\* C27: a mission tick with mission_mode other than "ARM_SEQ" issues no
\* command and leaves mission_mode, mission_stage, mission_stage_started
\* and robot_running as they were, whatever mission_stage holds.
C27_SequencerIdle ==
    [][(mission_mode # "ARM_SEQ" /\ mission_callback) =>
          /\ cmds' = <<>>
          /\ UNCHANGED <<mission_mode, mission_stage, mission_stage_started,
                         robot_running>>]_vars

\* the mission timer has fired in a period after the mission was done, with
\* stage 9 left from the pass
C27_Witness ==
    /\ mission_mode = "DONE" /\ mission_stage = 9
    /\ "mission" \notin due /\ "line" \in due

\* the text of a parameter's value as the query gives it: up to the next
\* "&" or to the end of the query
QueryText(request_str, key) == Split0(ParamText(request_str, key), <<" ">>)

\* the number that text stands for
QueryValue(request_str, j) ==
    IF Keys[j].kind = "int" THEN ParseInt(QueryText(request_str, Keys[j].key))
    ELSE ParseFloat(QueryText(request_str, Keys[j].key))

\* every numeric override of the query is well formed
WellFormed(request_str) ==
    \A j \in 1..Len(Keys) :
       (Keys[j].kind # "side" /\ HasParam(request_str, Keys[j].key))
       => QueryValue(request_str, j).ok

\* C28: when the server loop is done with a start request whose numeric
\* overrides are all well formed, it has sent the response (having set
\* OUTBOUND and robot_running on the way) and every numeric override has
\* been applied, wherever the key stands in the query, the last place
\* included.
C28_StartWithOverrides ==
    [][( /\ hpc # "accept" /\ hpc' = "accept"
         /\ ReqRoute[req] = "start"
         /\ WellFormed(Requests[req]) )
       => /\ hpc = "send"
          /\ \A j \in 1..Len(Keys) :
                (Keys[j].kind # "side" /\ HasParam(Requests[req], Keys[j].key))
                => tun[Keys[j].field] = QueryValue(Requests[req], j).val]_vars

\* C29: in every reachable state, between any two statements of the server
\* loop and any two timer callbacks, robot_running implies that
\* mission_mode is "OUTBOUND" or "RETURNING".
C29_RunningOnlyOnALeg ==
    robot_running => mission_mode \in {"OUTBOUND", "RETURNING"}

\* C30: decide_action returns SEARCHING for none of the 32 snapshots: every
\* result is ON JUNCTION, LINE LOST, FORWARD or a LEFT / RIGHT variant, so
\* the callback, which hands the result to set_motor_action, never reaches
\* the SEARCHING branch.
C30_NeverSearching ==
    \A i \in 1..Len(calls) :
        /\ calls[i].action # "SEARCHING"
        /\ calls[i].action \in
              {"ON JUNCTION", "LINE LOST", "FORWARD", "SLIGHT RIGHT", "MILD RIGHT",
               "HARD RIGHT", "SLIGHT LEFT", "MILD LEFT", "HARD LEFT"}

\* the snapshot whose mean weight, 0.25, is the closest to zero without
\* being zero has been classified
C30_Witness ==
    /\ Len(calls) = 2
    /\ calls[2] = [sensor_values |-> <<1, 1, 1, 0, 1>>, action |-> "SLIGHT RIGHT"]
    /\ calls[1].sensor_values = <<1, 0, 1, 1, 1>>

\* C31: in every reachable state last_direction is FORWARD or one of the
\* six LEFT / RIGHT variants, never ON JUNCTION, LINE LOST or SEARCHING; so
\* a call of set_motor_action, whatever its action and whether or not the
\* grace period is running, has at most one call
\* set_motor_action(last_direction) nested in it and returns.
C31_LastDirection ==
    /\ last_direction \in {"FORWARD", "SLIGHT LEFT", "MILD LEFT", "HARD LEFT",
                           "SLIGHT RIGHT", "MILD RIGHT", "HARD RIGHT"}
    /\ \A action \in Actions : \A inGrace \in BOOLEAN :
          Nesting(action, last_direction, inGrace, 0) <= 1

\* a LINE LOST tick within the grace period has found last_direction
\* FORWARD and driven forward through the nested call
C31_Witness ==
    /\ by = "line" /\ line_lost /\ robot_running
    /\ last_direction = "FORWARD"
    /\ Nesting("LINE LOST", last_direction, TRUE, 0) = 1
    /\ cmds = Wheels("forward", tun.base_speed, "forward", tun.base_speed)

\* a statement of the server loop on a start or stop request
StartOrStopStep ==
    /\ hpc # "accept" /\ hpc' # hpc
    /\ ReqRoute[req] \in {"start", "stop"}

\* C32: mission_mode becomes "DONE" from "RETURNING" only, in a step that
\* issues StopAllMotors alone and leaves robot_running FALSE; in "DONE"
\* with robot_running FALSE only a statement of a start or stop request
\* changes mission_mode or robot_running, and any other step issues no
\* wheel command, a timer callback no command at all.
C32_DoneIsQuiet ==
    [][ /\ (mission_mode # "DONE" /\ mission_mode' = "DONE") =>
              /\ mission_mode = "RETURNING"
              /\ cmds' = <<StopAllMotors>>
              /\ ~robot_running'
        /\ (mission_mode = "DONE" /\ ~robot_running
              /\ <<mission_mode, robot_running>>' # <<mission_mode, robot_running>>)
           => StartOrStopStep
        /\ (mission_mode = "DONE" /\ ~robot_running /\ ~StartOrStopStep) =>
              /\ ~HasDrive(cmds')
              /\ by' \notin {"line", "mission"}
      ]_vars

\* the mission is done and the line-follow timer has fired again since,
\* with nothing issued
C32_Witness ==
    /\ mission_mode = "DONE" /\ ~robot_running
    /\ hpc = "accept"
    /\ "line" \notin due /\ "mission" \in due
    /\ cmds = <<>> /\ by = "-"

============================================================================
